---- MODULE Spec2Model ----
(***************************************************************************)
(* tbconfig.LoadConfig: the tag-driven binding of a struct from the        *)
(* process environment.  Strings are sequences of one-character strings,   *)
(* so that splitting, trimming and escaping are computed character by      *)
(* character as the Go library does.                                       *)
(***************************************************************************)
EXTENDS Integers, Sequences, FiniteSets, TLC

VARIABLES environ, dotenv, schema, rec, cfg, pc, env, idx, result,
          old, environ0, loaded, raws, calls, prev, aux,
          configs, loggers, events, reply

vars == <<environ, dotenv, schema, rec, cfg, pc, env, idx, result,
          old, environ0, loaded, raws, calls, prev, aux,
          configs, loggers, events, reply>>

\* the state of package tblogger: the Config objects, the Logger objects, what
\* was written, exited and panicked, and the last call with what it returned
loggerVars == <<configs, loggers, events, reply>>

\* the state of package tbconfig
configVars == <<environ, dotenv, schema, rec, cfg, pc, env, idx, result,
                old, environ0, loaded, raws, calls, prev, aux>>

-----------------------------------------------------------------------------
(* Bounds of the model. *)

\* LoadConfig calls in one behaviour
MaxCalls == 2

\* entries the initial process environment may hold
MaxEnvVars == 3

-----------------------------------------------------------------------------
(* package strings, on sequences of characters *)

HasPrefix(s, p) == Len(s) >= Len(p) /\ SubSeq(s, 1, Len(p)) = p

HasSuffix(s, p) == Len(s) >= Len(p) /\ SubSeq(s, Len(s) - Len(p) + 1, Len(s)) = p

TrimPrefix(s, p) == IF HasPrefix(s, p) THEN SubSeq(s, Len(p) + 1, Len(s)) ELSE s

RECURSIVE TrimLeftIn(_, _)
TrimLeftIn(s, cut) ==
    IF s # <<>> /\ Head(s) \in cut THEN TrimLeftIn(Tail(s), cut) ELSE s

RECURSIVE TrimRightIn(_, _)
TrimRightIn(s, cut) ==
    IF s # <<>> /\ s[Len(s)] \in cut
    THEN TrimRightIn(SubSeq(s, 1, Len(s) - 1), cut) ELSE s

\* strings.Trim(s, cutset): strips every leading and trailing character of cutset
Trim(s, cut) == TrimRightIn(TrimLeftIn(s, cut), cut)

\* strings.TrimSpace, for the white space of the ASCII range
TrimSpace(s) == Trim(s, {" ", "\t", "\n", "\r"})

\* strings.Index: position (from 1) of the first occurrence of sep, 0 if none
Index(s, sep) ==
    LET hits == {i \in 1..(Len(s) - Len(sep) + 1) : SubSeq(s, i, i + Len(sep) - 1) = sep}
    IN  IF hits = {} THEN 0 ELSE CHOOSE i \in hits : \A j \in hits : i <= j

RECURSIVE SplitOn(_, _)
SplitOn(s, sep) ==
    LET i == Index(s, sep)
    IN  IF i = 0 THEN <<s>>
        ELSE <<SubSeq(s, 1, i - 1)>> \o SplitOn(SubSeq(s, i + Len(sep), Len(s)), sep)

\* strings.Split(s, sep): with an empty sep the string explodes into characters
Split(s, sep) ==
    IF sep = <<>> THEN [i \in 1..Len(s) |-> <<s[i]>>] ELSE SplitOn(s, sep)

-----------------------------------------------------------------------------
(* net/url QueryEscape *)

\* the printable ASCII characters in code order, from 0x20; the grave accent
\* (0x60), which a TLA+ string cannot hold, is written "grave"
Ascii ==
  <<" ", "!", "\"", "#", "$", "%", "&", "'", "(", ")", "*", "+", ",", "-", ".", "/",
     "0", "1", "2", "3", "4", "5", "6", "7", "8", "9", ":", ";", "<", "=", ">", "?",
     "@", "A", "B", "C", "D", "E", "F", "G", "H", "I", "J", "K", "L", "M", "N", "O",
     "P", "Q", "R", "S", "T", "U", "V", "W", "X", "Y", "Z", "[", "\\", "]", "^", "_",
     "grave", "a", "b", "c", "d", "e", "f", "g", "h", "i", "j", "k", "l", "m", "n", "o",
     "p", "q", "r", "s", "t", "u", "v", "w", "x", "y", "z", "{", "|", "}", "~">>

Ord(c) == 31 + (CHOOSE i \in 1..Len(Ascii) : Ascii[i] = c)

upperhex == <<"0", "1", "2", "3", "4", "5", "6", "7", "8", "9", "A", "B", "C", "D", "E", "F">>

IsAlnum(c) == \/ Ord(c) \in Ord("a")..Ord("z")
              \/ Ord(c) \in Ord("A")..Ord("Z")
              \/ Ord(c) \in Ord("0")..Ord("9")

\* url.shouldEscape(c, encodeQueryComponent)
shouldEscape(c) == ~(IsAlnum(c) \/ c \in {"-", "_", ".", "~"})

\* escapeChar in the manner of url.PathEscape: a space becomes %20
escapeChar_PathStyle(c) ==
    IF shouldEscape(c)
    THEN <<"%", upperhex[(Ord(c) \div 16) + 1], upperhex[(Ord(c) % 16) + 1]>>
    ELSE <<c>>

escapeChar(c) ==
    IF c = " " THEN <<"+">>
    ELSE IF shouldEscape(c)
         THEN <<"%", upperhex[(Ord(c) \div 16) + 1], upperhex[(Ord(c) % 16) + 1]>>
         ELSE <<c>>

RECURSIVE QueryEscape(_)
QueryEscape(s) == IF s = <<>> THEN <<>> ELSE escapeChar(Head(s)) \o QueryEscape(Tail(s))

-----------------------------------------------------------------------------
(* constants of the package *)

ServiceEnvVarName == <<"N", "O", "D", "E", "_", "E", "N", "V">>

EnvLocal == <<"l", "o", "c", "a", "l">>

TransformURLEscape == <<"u", "r", "l", "_", "e", "s", "c", "a", "p", "e">>

TransformHostsNoPorts == <<"h", "o", "s", "t", "s", "_", "n", "o", "_", "p", "o", "r", "t", "s">>

configTagEnv == <<"e", "n", "v", ":">>

configTagDefault == <<"d", "e", "f", "a", "u", "l", "t", ":">>

configTagSep == <<"s", "e", "p", ":">>

configTagTransform == <<"t", "r", "a", "n", "s", "f", "o", "r", "m", ":">>

configTagDesc == <<"d", "e", "s", "c", ":">>

configTagRequired == <<"r", "e", "q", "u", "i", "r", "e", "d">>

-----------------------------------------------------------------------------
(* parseConfigTag *)

\* the zero ConfigField
ConfigField ==
    [EnvVar |-> <<>>, Default |-> <<>>, Required |-> FALSE,
     Transform |-> <<>>, Separator |-> <<>>, Description |-> <<>>]

\* sepValue leaving the quotes where they are
sepValue_KeepQuotes(part) == TrimPrefix(part, configTagSep)

\* the value of a sep: directive, its single quotes stripped
sepValue(part) ==
    LET sep == TrimPrefix(part, configTagSep)
    IN  IF HasPrefix(sep, <<"'">>) /\ HasSuffix(sep, <<"'">>) THEN Trim(sep, {"'"}) ELSE sep
\* parseDirective taking a part it does not know for the description
parseDirective_BareText(config, part) ==
    CASE HasPrefix(part, configTagEnv) ->
            [config EXCEPT !.EnvVar = TrimPrefix(part, configTagEnv)]
      [] HasPrefix(part, configTagDefault) ->
            [config EXCEPT !.Default = TrimPrefix(part, configTagDefault)]
      [] HasPrefix(part, configTagSep) ->
            [config EXCEPT !.Separator = sepValue(part)]
      [] HasPrefix(part, configTagTransform) ->
            [config EXCEPT !.Transform = TrimPrefix(part, configTagTransform)]
      [] HasPrefix(part, configTagDesc) ->
            [config EXCEPT !.Description = TrimPrefix(part, configTagDesc)]
      [] part = configTagRequired ->
            [config EXCEPT !.Required = TRUE]
      [] OTHER -> [config EXCEPT !.Description = part]
\* parseDirective keeping the first env: directive of a tag instead of the last
parseDirective_FirstWins(config, part) ==
    CASE HasPrefix(part, configTagEnv) ->
            IF config.EnvVar = <<>> THEN [config EXCEPT !.EnvVar = TrimPrefix(part, configTagEnv)]
            ELSE config
      [] HasPrefix(part, configTagDefault) ->
            [config EXCEPT !.Default = TrimPrefix(part, configTagDefault)]
      [] HasPrefix(part, configTagSep) ->
            [config EXCEPT !.Separator = sepValue(part)]
      [] HasPrefix(part, configTagTransform) ->
            [config EXCEPT !.Transform = TrimPrefix(part, configTagTransform)]
      [] HasPrefix(part, configTagDesc) ->
            [config EXCEPT !.Description = TrimPrefix(part, configTagDesc)]
      [] part = configTagRequired ->
            [config EXCEPT !.Required = TRUE]
      [] OTHER -> config
\* parseDirective storing the text of desc: as the default too
parseDirective_DescDefault(config, part) ==
    CASE HasPrefix(part, configTagEnv) ->
            [config EXCEPT !.EnvVar = TrimPrefix(part, configTagEnv)]
      [] HasPrefix(part, configTagDefault) ->
            [config EXCEPT !.Default = TrimPrefix(part, configTagDefault)]
      [] HasPrefix(part, configTagSep) ->
            [config EXCEPT !.Separator = sepValue(part)]
      [] HasPrefix(part, configTagTransform) ->
            [config EXCEPT !.Transform = TrimPrefix(part, configTagTransform)]
      [] HasPrefix(part, configTagDesc) ->
            [config EXCEPT !.Description = TrimPrefix(part, configTagDesc),
                           !.Default = TrimPrefix(part, configTagDesc)]
      [] part = configTagRequired ->
            [config EXCEPT !.Required = TRUE]
      [] OTHER -> config

\* one iteration of the loop over the directives: the switch on the trimmed part
parseDirective(config, part) ==
    CASE HasPrefix(part, configTagEnv) ->
            [config EXCEPT !.EnvVar = TrimPrefix(part, configTagEnv)]
      [] HasPrefix(part, configTagDefault) ->
            [config EXCEPT !.Default = TrimPrefix(part, configTagDefault)]
      [] HasPrefix(part, configTagSep) ->
            [config EXCEPT !.Separator = sepValue(part)]
      [] HasPrefix(part, configTagTransform) ->
            [config EXCEPT !.Transform = TrimPrefix(part, configTagTransform)]
      [] HasPrefix(part, configTagDesc) ->
            [config EXCEPT !.Description = TrimPrefix(part, configTagDesc)]
      [] part = configTagRequired ->
            [config EXCEPT !.Required = TRUE]
      [] OTHER -> config

RECURSIVE parseParts(_, _)
parseParts(config, parts) ==
    IF parts = <<>> THEN config
    ELSE parseParts(parseDirective(config, TrimSpace(Head(parts))), Tail(parts))

parseConfigTag(tag) == parseParts(ConfigField, Split(tag, <<",">>))

-----------------------------------------------------------------------------
(* resolution and transformation *)

\* os.LookupEnv: the empty name is never found
LookupEnv(e, key) == key # <<>> /\ key \in DOMAIN e

\* getEnv taking an empty value for an unset variable
getEnv_EmptyIsUnset(e, key, defaultVal) ==
    IF LookupEnv(e, key) /\ e[key] # <<>> THEN e[key] ELSE defaultVal

getEnv(e, key, defaultVal) == IF LookupEnv(e, key) THEN e[key] ELSE defaultVal
\* applyTransform cutting the port off a value under hosts_no_ports
applyTransform_StripPort(value, transform) ==
    CASE transform = TransformURLEscape -> QueryEscape(value)
      [] transform = TransformHostsNoPorts -> Split(value, <<":">>)[1]
      [] OTHER -> value

applyTransform(value, transform) ==
    CASE transform = TransformURLEscape -> QueryEscape(value)
      [] transform = TransformHostsNoPorts -> value
      [] OTHER -> value

-----------------------------------------------------------------------------
(* package strconv *)

IsDigit(c) == c \in {"0", "1", "2", "3", "4", "5", "6", "7", "8", "9"}

DigitVal(c) == Ord(c) - Ord("0")

RECURSIVE DecVal(_)
DecVal(ds) == IF ds = <<>> THEN 0 ELSE 10 * DecVal(SubSeq(ds, 1, Len(ds) - 1)) + DigitVal(ds[Len(ds)])

\* strconv.ParseInt(s, 10, 64): an optional sign, then one or more decimal digits.
\* The values of the model stay far inside the 64-bit range.
ParseInt(s) ==
    LET neg    == s # <<>> /\ Head(s) = "-"
        digits == IF s # <<>> /\ Head(s) \in {"+", "-"} THEN Tail(s) ELSE s
    IN  IF digits # <<>> /\ \A i \in 1..Len(digits) : IsDigit(digits[i])
        THEN [ok |-> TRUE, val |-> IF neg THEN 0 - DecVal(digits) ELSE DecVal(digits)]
        ELSE [ok |-> FALSE, val |-> 0]

\* strconv.Atoi(s): ParseInt(s, 10, 0) on a machine whose int has 64 bits
Atoi(s) == ParseInt(s)

\* the string with its upper-case letters replaced by lower-case ones
Lower(s) ==
    [n \in 1..Len(s) |->
        IF Ord(s[n]) \in Ord("A")..Ord("Z") THEN Ascii[Ord(s[n]) + 32 - 31] ELSE s[n]]

\* ParseBool taking its spellings in any mixture of upper and lower case
ParseBool_AnyCase(s) ==
    IF Lower(s) \in {<<"1">>, <<"t">>, <<"t", "r", "u", "e">>} THEN [ok |-> TRUE, val |-> TRUE]
    ELSE IF Lower(s) \in {<<"0">>, <<"f">>, <<"f", "a", "l", "s", "e">>} THEN [ok |-> TRUE, val |-> FALSE]
    ELSE [ok |-> FALSE, val |-> FALSE]

\* strconv.ParseBool: exactly these twelve spellings
ParseBool(s) ==
    IF s \in {<<"1">>, <<"t">>, <<"T">>, <<"T", "R", "U", "E">>, <<"t", "r", "u", "e">>, <<"T", "r", "u", "e">>} THEN [ok |-> TRUE, val |-> TRUE]
    ELSE IF s \in {<<"0">>, <<"f">>, <<"F">>, <<"F", "A", "L", "S", "E">>, <<"f", "a", "l", "s", "e">>, <<"F", "a", "l", "s", "e">>} THEN [ok |-> TRUE, val |-> FALSE]
    ELSE [ok |-> FALSE, val |-> FALSE]

-----------------------------------------------------------------------------
(* field types, as package reflect reports them *)

\* kind: reflect.Kind; name: Type().Name(); elemKind, elemName: the element type of a slice
GoType(kind, name, elemKind, elemName) ==
    [kind |-> kind, name |-> name, elemKind |-> elemKind, elemName |-> elemName]

IntKinds == {"Int", "Int8", "Int16", "Int32", "Int64"}

\* reflect.Value.SetInt stores the value truncated to the width of the field
SetInt(kind, v) ==
    CASE kind = "Int8"  -> ((v + 128) % 256) - 128
      [] kind = "Int16" -> ((v + 32768) % 65536) - 32768
      [] OTHER -> v

\* the zero value of a type
Zero(t) ==
    CASE t.kind = "Bool" -> FALSE
      [] t.kind \in {"String", "Slice"} -> <<>>
      [] OTHER -> 0

-----------------------------------------------------------------------------
(* errors and outcomes *)

Error(kind, field, detail) == [kind |-> kind, field |-> field, detail |-> detail]

NoError == Error("nil", "", <<>>)

\* what a call has produced: nothing yet, a returned value, or a panic
Outcome(out, err) == [out |-> out, err |-> err]

-----------------------------------------------------------------------------
(* setFieldValue *)

\* sliceValue splitting on the comma whatever separator the tag declares
sliceValue_CommaOnly(config, transformedValue) ==
    IF transformedValue # <<>>
    THEN LET slice == Split(transformedValue, <<",">>)
         IN  IF config.Transform = TransformHostsNoPorts
             THEN [i \in 1..Len(slice) |-> Split(slice[i], <<":">>)[1]]
             ELSE slice
    ELSE IF config.Default # <<>>
         THEN Split(config.Default, <<",">>)
         ELSE <<>>

\* sliceValue that forgets to strip the ports
sliceValue_KeepPorts(config, transformedValue) ==
    LET separator == IF config.Separator = <<>> THEN <<",">> ELSE config.Separator
    IN  IF transformedValue # <<>>
        THEN Split(transformedValue, separator)
        ELSE IF config.Default # <<>>
             THEN Split(config.Default, separator)
             ELSE <<>>
\* sliceValue cutting the ports off the elements of the default as well
sliceValue_DefaultStripped(config, transformedValue) ==
    LET separator == IF config.Separator = <<>> THEN <<",">> ELSE config.Separator
    IN  IF transformedValue # <<>>
        THEN LET slice == Split(transformedValue, separator)
             IN  IF config.Transform = TransformHostsNoPorts
                 THEN [i \in 1..Len(slice) |-> Split(slice[i], <<":">>)[1]]
                 ELSE slice
        ELSE IF config.Default # <<>>
             THEN LET slice == Split(config.Default, separator)
                  IN  IF config.Transform = TransformHostsNoPorts
                      THEN [i \in 1..Len(slice) |-> Split(slice[i], <<":">>)[1]]
                      ELSE slice
             ELSE <<>>

\* the []string a slice field is assembled to
sliceValue(config, transformedValue) ==
    LET separator == IF config.Separator = <<>> THEN <<",">> ELSE config.Separator
    IN  IF transformedValue # <<>>
        THEN LET slice == Split(transformedValue, separator)
             IN  IF config.Transform = TransformHostsNoPorts
                 THEN [i \in 1..Len(slice) |-> Split(slice[i], <<":">>)[1]]
                 ELSE slice
        ELSE IF config.Default # <<>>
             THEN Split(config.Default, separator)
             ELSE <<>>

\* coerce with the empty value parsed like any other: an integer or boolean
\* field is zeroed instead of left alone
coerce_ZeroOnEmpty(t, v, config, transformedValue) ==
    LET Ok(x)   == [out |-> "ok", err |-> NoError, val |-> x]
        Fail(e) == [out |-> "error", err |-> e, val |-> v]
    IN  CASE t.kind = "String" -> Ok(transformedValue)
          [] t.kind \in IntKinds ->
                IF transformedValue = <<>> THEN Ok(0)
                ELSE LET p == ParseInt(transformedValue)
                     IN  IF p.ok THEN Ok(SetInt(t.kind, p.val))
                         ELSE Fail(Error("TypeCoercion", "", transformedValue))
          [] t.kind = "Bool" ->
                IF transformedValue = <<>> THEN Ok(FALSE)
                ELSE LET p == ParseBool(transformedValue)
                     IN  IF p.ok THEN Ok(p.val)
                         ELSE Fail(Error("TypeCoercion", "", transformedValue))
          [] t.kind = "Slice" ->
                IF t.elemKind = "String"
                THEN IF t.elemName = "string"
                     THEN Ok(sliceValue(config, transformedValue))
                     ELSE [out |-> "panic", err |-> NoError, val |-> v]
                ELSE Fail(Error("UnsupportedSliceType", "", <<>>))
          [] OTHER -> Fail(Error("UnsupportedFieldType", "", <<>>))
\* coerce growing a slice instead of replacing it
coerce_Append(t, v, config, transformedValue) ==
    LET Ok(x)   == [out |-> "ok", err |-> NoError, val |-> x]
        Fail(e) == [out |-> "error", err |-> e, val |-> v]
    IN  CASE t.kind = "String" -> Ok(transformedValue)
          [] t.kind \in IntKinds ->
                IF transformedValue = <<>> THEN Ok(v)
                ELSE LET p == ParseInt(transformedValue)
                     IN  IF p.ok THEN Ok(SetInt(t.kind, p.val))
                         ELSE Fail(Error("TypeCoercion", "", transformedValue))
          [] t.kind = "Bool" ->
                IF transformedValue = <<>> THEN Ok(v)
                ELSE LET p == ParseBool(transformedValue)
                     IN  IF p.ok THEN Ok(p.val)
                         ELSE Fail(Error("TypeCoercion", "", transformedValue))
          [] t.kind = "Slice" ->
                IF t.elemKind = "String"
                THEN \* field.Set panics unless []string is assignable to the field
                     IF t.elemName = "string"
                     THEN Ok(v \o sliceValue(config, transformedValue))
                     ELSE [out |-> "panic", err |-> NoError, val |-> v]
                ELSE Fail(Error("UnsupportedSliceType", "", <<>>))
          [] OTHER -> Fail(Error("UnsupportedFieldType", "", <<>>))
\* coerce taking a slice of any element kind for a slice of strings
coerce_AnySlice(t, v, config, transformedValue) ==
    LET Ok(x)   == [out |-> "ok", err |-> NoError, val |-> x]
        Fail(e) == [out |-> "error", err |-> e, val |-> v]
    IN  CASE t.kind = "String" -> Ok(transformedValue)
          [] t.kind \in IntKinds ->
                IF transformedValue = <<>> THEN Ok(v)
                ELSE LET p == ParseInt(transformedValue)
                     IN  IF p.ok THEN Ok(SetInt(t.kind, p.val))
                         ELSE Fail(Error("TypeCoercion", "", transformedValue))
          [] t.kind = "Bool" ->
                IF transformedValue = <<>> THEN Ok(v)
                ELSE LET p == ParseBool(transformedValue)
                     IN  IF p.ok THEN Ok(p.val)
                         ELSE Fail(Error("TypeCoercion", "", transformedValue))
          [] t.kind = "Slice" ->
                IF t.elemKind = "String"
                THEN \* field.Set panics unless []string is assignable to the field
                     IF t.elemName = "string"
                     THEN Ok(sliceValue(config, transformedValue))
                     ELSE [out |-> "panic", err |-> NoError, val |-> v]
                ELSE Ok(sliceValue(config, transformedValue))
          [] OTHER -> Fail(Error("UnsupportedFieldType", "", <<>>))
\* coerce passing over an empty value before it looks at the kind of the field
coerce_EmptySkips(t, v, config, transformedValue) ==
    LET Ok(x)   == [out |-> "ok", err |-> NoError, val |-> x]
        Fail(e) == [out |-> "error", err |-> e, val |-> v]
    IN  CASE t.kind = "String" -> Ok(transformedValue)
          [] t.kind \in IntKinds ->
                IF transformedValue = <<>> THEN Ok(v)
                ELSE LET p == ParseInt(transformedValue)
                     IN  IF p.ok THEN Ok(SetInt(t.kind, p.val))
                         ELSE Fail(Error("TypeCoercion", "", transformedValue))
          [] t.kind = "Bool" ->
                IF transformedValue = <<>> THEN Ok(v)
                ELSE LET p == ParseBool(transformedValue)
                     IN  IF p.ok THEN Ok(p.val)
                         ELSE Fail(Error("TypeCoercion", "", transformedValue))
          [] t.kind = "Slice" ->
                IF t.elemKind = "String"
                THEN \* field.Set panics unless []string is assignable to the field
                     IF t.elemName = "string"
                     THEN Ok(sliceValue(config, transformedValue))
                     ELSE [out |-> "panic", err |-> NoError, val |-> v]
                ELSE Fail(Error("UnsupportedSliceType", "", <<>>))
          [] OTHER -> IF transformedValue = <<>> THEN Ok(v)
                      ELSE Fail(Error("UnsupportedFieldType", "", <<>>))
\* coerce leaving a String field alone when the value is empty, as it does an integer
coerce_KeepString(t, v, config, transformedValue) ==
    LET Ok(x)   == [out |-> "ok", err |-> NoError, val |-> x]
        Fail(e) == [out |-> "error", err |-> e, val |-> v]
    IN  CASE t.kind = "String" -> IF transformedValue = <<>> THEN Ok(v) ELSE Ok(transformedValue)
          [] t.kind \in IntKinds ->
                IF transformedValue = <<>> THEN Ok(v)
                ELSE LET p == ParseInt(transformedValue)
                     IN  IF p.ok THEN Ok(SetInt(t.kind, p.val))
                         ELSE Fail(Error("TypeCoercion", "", transformedValue))
          [] t.kind = "Bool" ->
                IF transformedValue = <<>> THEN Ok(v)
                ELSE LET p == ParseBool(transformedValue)
                     IN  IF p.ok THEN Ok(p.val)
                         ELSE Fail(Error("TypeCoercion", "", transformedValue))
          [] t.kind = "Slice" ->
                IF t.elemKind = "String"
                THEN \* field.Set panics unless []string is assignable to the field
                     IF t.elemName = "string"
                     THEN Ok(sliceValue(config, transformedValue))
                     ELSE [out |-> "panic", err |-> NoError, val |-> v]
                ELSE Fail(Error("UnsupportedSliceType", "", <<>>))
          [] OTHER -> Fail(Error("UnsupportedFieldType", "", <<>>))

\* The coercion switch on field.Kind().  The result tells how the call ends
\* ("ok", "error" or "panic"), the error and the value the field then holds.
coerce(t, v, config, transformedValue) ==
    LET Ok(x)   == [out |-> "ok", err |-> NoError, val |-> x]
        Fail(e) == [out |-> "error", err |-> e, val |-> v]
    IN  CASE t.kind = "String" -> Ok(transformedValue)
          [] t.kind \in IntKinds ->
                IF transformedValue = <<>> THEN Ok(v)
                ELSE LET p == ParseInt(transformedValue)
                     IN  IF p.ok THEN Ok(SetInt(t.kind, p.val))
                         ELSE Fail(Error("TypeCoercion", "", transformedValue))
          [] t.kind = "Bool" ->
                IF transformedValue = <<>> THEN Ok(v)
                ELSE LET p == ParseBool(transformedValue)
                     IN  IF p.ok THEN Ok(p.val)
                         ELSE Fail(Error("TypeCoercion", "", transformedValue))
          [] t.kind = "Slice" ->
                IF t.elemKind = "String"
                THEN \* field.Set panics unless []string is assignable to the field
                     IF t.elemName = "string"
                     THEN Ok(sliceValue(config, transformedValue))
                     ELSE [out |-> "panic", err |-> NoError, val |-> v]
                ELSE Fail(Error("UnsupportedSliceType", "", <<>>))
          [] OTHER -> Fail(Error("UnsupportedFieldType", "", <<>>))

\* setFieldValue without the check of the required flag
setFieldValue_NoRequired(e, t, v, config) ==
    LET rawValue == getEnv(e, config.EnvVar, config.Default)
        transformedValue == applyTransform(rawValue, config.Transform)
        c == coerce(t, v, config, transformedValue)
    IN  [out |-> c.out, err |-> c.err, val |-> c.val,
         raw |-> rawValue, transformed |-> transformedValue, coerced |-> TRUE]

setFieldValue(e, t, v, config) ==
    LET rawValue == getEnv(e, config.EnvVar, config.Default)
        transformedValue == applyTransform(rawValue, config.Transform)
    IN  IF config.Required /\ rawValue = <<>>
        THEN [out |-> "error", err |-> Error("MissingRequired", "", config.EnvVar),
              val |-> v, raw |-> rawValue, transformed |-> <<>>, coerced |-> FALSE]
        ELSE LET c == coerce(t, v, config, transformedValue)
             IN  [out |-> c.out, err |-> c.err, val |-> c.val,
                  raw |-> rawValue, transformed |-> transformedValue, coerced |-> TRUE]

-----------------------------------------------------------------------------
(* the struct types and the surroundings the model draws its inputs from *)

Field(name, type, exported, tag) ==
    [name |-> name, type |-> type, exported |-> exported, tag |-> tag]

TString == GoType("String", "string", "", "")

TInt == GoType("Int", "int", "", "")

TInt8 == GoType("Int8", "int8", "", "")

TBool == GoType("Bool", "bool", "", "")

TStrings == GoType("Slice", "", "String", "string")

TInts == GoType("Slice", "", "Int", "int")

TUint == GoType("Uint", "uint", "", "")

TFloat == GoType("Float64", "float64", "", "")

\* a slice of a named type whose underlying type is string
TNames == GoType("Slice", "", "String", "Label")

\* a type named Env, of another package, that is no string
TEnvCode == GoType("Int", "Env", "", "")

\* the package's own type Env string
TEnv == GoType("String", "Env", "", "")

\* the two tagged fields of the end-to-end scenario, as in Settings
Cluster ==
    << Field("Hosts", TStrings, TRUE, <<"e", "n", "v", ":", "H", "O", "S", "T", "S", ",", "s", "e", "p", ":", "'", ",", "'", ",", "t", "r", "a", "n", "s", "f", "o", "r", "m", ":", "h", "o", "s", "t", "s", "_", "n", "o", "_", "p", "o", "r", "t", "s">>),
       Field("Password", TString, TRUE, <<"e", "n", "v", ":", "P", "A", "S", "S", ",", "t", "r", "a", "n", "s", "f", "o", "r", "m", ":", "u", "r", "l", "_", "e", "s", "c", "a", "p", "e">>) >>

Server ==
    << Field("Env", TEnv, TRUE, <<"e", "n", "v", ":", "N", "A", "M", "E">>),
       Field("Name", TString, TRUE, <<"e", "n", "v", ":", "N", "A", "M", "E", ",", "r", "e", "q", "u", "i", "r", "e", "d">>),
       Field("Port", TInt, TRUE, <<"e", "n", "v", ":", "P", "O", "R", "T">>),
       Field("Debug", TBool, TRUE, <<"e", "n", "v", ":", "D", "E", "B", "U", "G", ",", " ", "r", "e", "q", "u", "i", "r", "e", "d">>) >>

Lists ==
    << Field("Plain", TStrings, TRUE, <<"e", "n", "v", ":", "L", "I", "S", "T">>),
       Field("Nodes", TStrings, TRUE, <<"e", "n", "v", ":", "L", "I", "S", "T", ",", "s", "e", "p", ":", "'", "|", "'", ",", "t", "r", "a", "n", "s", "f", "o", "r", "m", ":", "h", "o", "s", "t", "s", "_", "n", "o", "_", "p", "o", "r", "t", "s">>),
       Field("Piped", TStrings, TRUE, <<"e", "n", "v", ":", "L", "I", "S", "T", ",", "r", "e", "q", "u", "i", "r", "e", "d", ",", "s", "e", "p", ":", "|", ",", "t", "r", "a", "n", "s", "f", "o", "r", "m", ":", "u", "r", "l", "_", "e", "s", "c", "a", "p", "e">>),
       Field("Dashed", TStrings, TRUE, <<"e", "n", "v", ":", "L", "I", "S", "T", ",", "s", "e", "p", ":", "-", ",", "t", "r", "a", "n", "s", "f", "o", "r", "m", ":", "u", "r", "l", "_", "e", "s", "c", "a", "p", "e">>) >>

Defaults ==
    << Field("Region", TString, TRUE, <<"e", "n", "v", ":", "R", "E", "G", "I", "O", "N", ",", "d", "e", "f", "a", "u", "l", "t", ":", "e", "u">>),
       Field("Retries", TInt8, TRUE, <<"d", "e", "f", "a", "u", "l", "t", ":", "3", ",", "d", "e", "s", "c", ":", "a", "t", "t", "e", "m", "p", "t", "s">>),
       Field("Verbose", TBool, TRUE, <<"e", "n", "v", ":", "R", "E", "G", "I", "O", "N", ",", "t", "r", "a", "n", "s", "f", "o", "r", "m", ":", "h", "o", "s", "t", "s", "_", "n", "o", "_", "p", "o", "r", "t", "s">>),
       Field("Token", TString, TRUE, <<"r", "e", "q", "u", "i", "r", "e", "d">>) >>

\* an unexported field, an untagged one and the untagged environment field
Profile ==
    << Field("secret", TString, FALSE, <<"e", "n", "v", ":", "N", "A", "M", "E", ",", "r", "e", "q", "u", "i", "r", "e", "d">>),
       Field("Note", TString, TRUE, <<>>),
       Field("Env", TString, TRUE, <<>>),
       Field("Label", TString, TRUE, <<"e", "n", "v", ":", "N", "A", "M", "E", ",", "d", "e", "f", "a", "u", "l", "t", ":", "n", "o", "n", "e">>) >>

Small ==
    << Field("Tiny", TInt8, TRUE, <<"e", "n", "v", ":", "P", "O", "R", "T">>),
       Field("Counts", TInts, TRUE, <<"e", "n", "v", ":", "L", "I", "S", "T", ",", "r", "e", "q", "u", "i", "r", "e", "d">>) >>

Odd ==
    << Field("Flag", TBool, TRUE, <<"e", "n", "v", ":", "F", "L", "A", "G">>),
       Field("Ratio", TFloat, TRUE, <<"e", "n", "v", ":", "P", "O", "R", "T">>) >>

Gauge ==
    << Field("Weight", TUint, TRUE, <<"e", "n", "v", ":", "P", "O", "R", "T", ",", "r", "e", "q", "u", "i", "r", "e", "d">>) >>

Fallback ==
    << Field("Peers", TStrings, TRUE, <<"e", "n", "v", ":", "R", "E", "G", "I", "O", "N", ",", "d", "e", "f", "a", "u", "l", "t", ":", "h", ":", "1", ";", "i", ":", "2", ",", "s", "e", "p", ":", ";", ",", "t", "r", "a", "n", "s", "f", "o", "r", "m", ":", "h", "o", "s", "t", "s", "_", "n", "o", "_", "p", "o", "r", "t", "s">>),
       Field("Tags", TStrings, TRUE, <<"e", "n", "v", ":", "R", "E", "G", "I", "O", "N", ",", "s", "e", "p", ":", ";">>),
       Field("Codes", TInts, TRUE, <<"e", "n", "v", ":", "R", "E", "G", "I", "O", "N">>) >>

\* string and slice fields under hosts_no_ports, under a transform the package
\* does not know, and under none
Routes ==
    << Field("Addr", TString, TRUE, <<"e", "n", "v", ":", "H", "O", "S", "T", "S", ",", "t", "r", "a", "n", "s", "f", "o", "r", "m", ":", "h", "o", "s", "t", "s", "_", "n", "o", "_", "p", "o", "r", "t", "s">>),
       Field("Upper", TString, TRUE, <<"e", "n", "v", ":", "H", "O", "S", "T", "S", ",", "t", "r", "a", "n", "s", "f", "o", "r", "m", ":", "u", "p", "p", "e", "r">>),
       Field("Nodes", TStrings, TRUE, <<"e", "n", "v", ":", "H", "O", "S", "T", "S", ",", "t", "r", "a", "n", "s", "f", "o", "r", "m", ":", "u", "p", "p", "e", "r">>),
       Field("Bare", TString, TRUE, <<"e", "n", "v", ":", "H", "O", "S", "T", "S">>) >>

Aliases ==
    << Field("Title", TString, TRUE, <<"e", "n", "v", ":", "N", "A", "M", "E">>),
       Field("Labels", TNames, TRUE, <<"e", "n", "v", ":", "L", "I", "S", "T">>) >>

Stage ==
    << Field("Env", TEnvCode, TRUE, <<>>),
       Field("Name", TString, TRUE, <<"e", "n", "v", ":", "N", "A", "M", "E">>) >>

Schemas ==
    {Cluster, Server, Lists, Defaults, Profile, Small, Odd, Gauge, Fallback, Routes, Aliases, Stage}

\* the values a variable of the environment may hold
Values(key) ==
    CASE key = ServiceEnvVarName -> << <<"l", "o", "c", "a", "l">>, <<"t", "e", "s", "t">>, <<>> >>
      [] key = <<"H", "O", "S", "T", "S">> -> << <<"h", "1", ":", "1", ",", "h", "2", ":", "2">>, <<"h", "o", "s", "t", "1", ":", "9", "0", "4", "2", ",", "h", "o", "s", "t", "2", ":", "9", "0", "4", "2", ",", "h", "o", "s", "t", "3", ":", "9", "0", "4", "2">>, <<"a">> >>
      [] key = <<"P", "A", "S", "S">> -> << <<"a", " ", "b">>, <<"p", "@", "s", "s", " ", "w", "!", "t", "h", " ", "s", "p", "&", "c", "i", "a", "l">>, <<"~", "x", "-", "y", "_", "z", ".", "0">> >>
      [] key = <<"N", "A", "M", "E">> -> << <<"b", "o", "b">>, <<"a", "l">>, <<>> >>
      [] key = <<"P", "O", "R", "T">> -> << <<"8", "0">>, <<"-", "3", "0", "0">>, <<"x", "1">> >>
      [] key = <<"D", "E", "B", "U", "G">> -> << <<"t", "r", "u", "e">>, <<"0">>, <<"y", "e", "s">> >>
      [] key = <<"L", "I", "S", "T">> -> << <<"a", ",", "b", ",", "c">>, <<"a", "|", "b", "|", "c">>, <<"h", ":", "1", "|", "i", ":", "2", "|", "j">>, <<"a", "-", "b", "-", "c">> >>
      [] key = <<"R", "E", "G", "I", "O", "N">> -> << <<"u", "s">>, <<>>, <<"t">> >>
      [] key = <<"F", "L", "A", "G">> -> << <<"T", "R", "U", "E">>, <<"t", "R", "U", "E">>, <<"f">>, <<"2">> >>

\* the variables the fields of a struct read, and the environment selector
KeysOf(s) ==
    ({parseConfigTag(s[i].tag).EnvVar : i \in 1..Len(s)} \ {<<>>}) \cup {ServiceEnvVarName}

Environments(s) ==
    UNION { {[k \in D |-> Values(k)[g[k]]] :
                g \in {h \in [D -> 1..4] : \A k \in D : h[k] <= Len(Values(k))}} :
            D \in {X \in SUBSET KeysOf(s) : Cardinality(X) <= MaxEnvVars} }

\* a .env file that loads: its assignments
EnvFile ==
    [k \in {ServiceEnvVarName, <<"P", "O", "R", "T">>, <<"L", "I", "S", "T">>, <<"R", "E", "G", "I", "O", "N">>} |->
        CASE k = ServiceEnvVarName -> <<"s", "t", "a", "g", "i", "n", "g">>
          [] k = <<"P", "O", "R", "T">> -> <<"8", "0", "8", "0">>
          [] k = <<"L", "I", "S", "T">> -> <<"x", ",", "y">>
          [] k = <<"R", "E", "G", "I", "O", "N">> -> <<"f", "i", "l", "e">>]

\* the .env file of the working directory: absent, unparsable, or EnvFile
DotenvFiles == {[state |-> "missing", vars |-> <<>>],
                [state |-> "malformed", vars |-> <<>>],
                [state |-> "ok", vars |-> EnvFile]}

\* a value a field may hold before the call, other than its zero value
Preset(t) ==
    CASE t.kind = "Bool" -> TRUE
      [] t.kind = "String" -> <<"o", "l", "d">>
      [] t.kind = "Slice" -> IF t.elemKind = "String" THEN << <<"x">> >> ELSE << 1 >>
      [] OTHER -> 7

\* what LoadConfig may be handed: a pointer to the struct, the struct by value,
\* an untyped nil, a nil struct pointer, a pointer to an int
Targets == {"ptr_struct", "struct", "nil", "nil_ptr", "ptr_int"}

-----------------------------------------------------------------------------
(* the state machine *)

Unseen == [seen |-> FALSE, raw |-> <<>>, transformed |-> <<>>, coerced |-> FALSE]

\* no auxiliary lookup has returned since the last call of LoadConfig
NoLookup == [fn |-> "none", name |-> <<>>, def |-> <<>>, sep |-> <<>>, ret |-> <<>>]

\* no call of package tblogger has been made
NoCall == [fn |-> "none", logger |-> 0, arg |-> 0, msg |-> <<>>, ret |-> 0, err |-> "nil"]

Init ==
    /\ schema \in Schemas
    /\ environ \in Environments(schema)
    /\ dotenv \in DotenvFiles
    /\ rec \in {[i \in 1..Len(schema) |-> Zero(schema[i].type)],
                [i \in 1..Len(schema) |-> Preset(schema[i].type)]}
    /\ cfg = "nil"
    /\ pc = "idle"
    /\ env = <<>>
    /\ idx = 0
    /\ result = Outcome("none", NoError)
    /\ old = rec
    /\ environ0 = environ
    /\ loaded = "no"
    /\ raws = [i \in 1..Len(schema) |-> Unseen]
    /\ calls = 0
    /\ prev = [result |-> result, cfg |-> cfg, env |-> env]
    /\ aux = NoLookup
    /\ configs = <<>>
    /\ loggers = <<>>
    /\ events = <<>>
    /\ reply = NoCall

\* afterEnv without the load of the .env file
afterEnv_Skip(e) == "bind"

\* where LoadConfig goes once the active environment is known: to the load of
\* the .env file when it is "local", and straight to the binding otherwise
afterEnv(e) == IF e = EnvLocal THEN "dotenv" ELSE "bind"

\* LoadConfig is entered: the active environment is read
LoadConfig(c) ==
    /\ pc = "idle"
    /\ calls < MaxCalls
    /\ calls' = calls + 1
    /\ cfg' = c
    /\ env' = getEnv(environ, ServiceEnvVarName, EnvLocal)
    /\ pc' = afterEnv(env')
    /\ idx' = 0
    /\ result' = Outcome("pending", NoError)
    /\ old' = rec
    /\ environ0' = environ
    /\ loaded' = "no"
    /\ raws' = [i \in 1..Len(schema) |-> Unseen]
    /\ prev' = [result |-> result, cfg |-> cfg, env |-> env]
    /\ aux' = NoLookup
    /\ UNCHANGED <<environ, dotenv, schema, rec>>
    /\ UNCHANGED loggerVars

\* godotenv.Load(".env"): the file's assignments enter the environment, except
\* for the variables that are already set
godotenvLoad ==
    /\ pc = "dotenv"
    /\ IF dotenv.state = "ok"
       THEN /\ environ' = [k \in DOMAIN environ \cup DOMAIN dotenv.vars |->
                              IF k \in DOMAIN environ THEN environ[k] ELSE dotenv.vars[k]]
            /\ loaded' = "ok"
            /\ pc' = "bind"
            /\ UNCHANGED result
       ELSE /\ result' = Outcome("error", Error("BootstrapLoadFailed", "", <<>>))
            /\ loaded' = "failed"
            /\ pc' = "idle"
            /\ UNCHANGED environ
    /\ UNCHANGED <<dotenv, schema, rec, cfg, env, idx, old, environ0, raws, calls, prev, aux>>
    /\ UNCHANGED loggerVars

\* the check of the target without its second half: any pointer passes
IsPointer(c) == c \in {"ptr_struct", "nil_ptr", "ptr_int"}

\* v.Kind() == reflect.Ptr && v.Elem().Kind() == reflect.Struct
IsStructPointer(c) == c = "ptr_struct"

\* loadConfigIntoStruct is entered: the target must be a pointer to a struct
loadConfigIntoStruct ==
    /\ pc = "bind"
    /\ IF ~IsStructPointer(cfg)
       THEN /\ result' = Outcome("error", Error("NotBindable", "", <<>>))
            /\ pc' = "idle"
            /\ UNCHANGED idx
       ELSE /\ idx' = 1
            /\ pc' = "field"
            /\ UNCHANGED result
    /\ UNCHANGED <<environ, dotenv, schema, rec, cfg, env, old, environ0, loaded, raws, calls, prev, aux>>
    /\ UNCHANGED loggerVars

\* bindField collecting instead of failing fast: after an error the loop goes on
bindField_Collect ==
    /\ pc = "field"
    /\ idx <= Len(schema)
    /\ LET f == schema[idx]
       IN  IF ~f.exported \/ f.tag = <<>>
           THEN UNCHANGED <<rec, raws, result>> /\ idx' = idx + 1 /\ pc' = "field"
           ELSE LET r == setFieldValue(environ, f.type, rec[idx], parseConfigTag(f.tag))
                IN  /\ raws' = [raws EXCEPT ![idx] =
                                  [seen |-> TRUE, raw |-> r.raw,
                                   transformed |-> r.transformed, coerced |-> r.coerced]]
                    /\ rec' = [rec EXCEPT ![idx] = r.val]
                    /\ idx' = idx + 1
                    /\ pc' = "field"
                    /\ result' = IF r.out = "error" /\ result.out = "pending"
                                 THEN Outcome("error", [r.err EXCEPT !.field = f.name])
                                 ELSE result
    /\ UNCHANGED <<environ, dotenv, schema, cfg, env, old, environ0, loaded, calls, prev, aux>>
    /\ UNCHANGED loggerVars
\* bindField without the test of CanSet: the loop binds unexported fields too
bindField_Unexported ==
    /\ pc = "field"
    /\ idx <= Len(schema)
    /\ LET f == schema[idx]
       IN  IF f.tag = <<>>
           THEN UNCHANGED <<rec, raws, result>> /\ idx' = idx + 1 /\ pc' = "field"
           ELSE LET r == setFieldValue(environ, f.type, rec[idx], parseConfigTag(f.tag))
                IN  /\ raws' = [raws EXCEPT ![idx] =
                                  [seen |-> TRUE, raw |-> r.raw,
                                   transformed |-> r.transformed, coerced |-> r.coerced]]
                    /\ rec' = [rec EXCEPT ![idx] = r.val]
                    /\ CASE r.out = "ok" ->
                              idx' = idx + 1 /\ pc' = "field" /\ UNCHANGED result
                         [] r.out = "error" ->
                              /\ result' = Outcome("error", [r.err EXCEPT !.field = f.name])
                              /\ pc' = "idle"
                              /\ UNCHANGED idx
                         [] r.out = "panic" ->
                              /\ result' = Outcome("panic", NoError)
                              /\ pc' = "idle"
                              /\ UNCHANGED idx
    /\ UNCHANGED <<environ, dotenv, schema, cfg, env, old, environ0, loaded, calls, prev, aux>>
    /\ UNCHANGED loggerVars

\* one iteration of the loop over the fields
bindField ==
    /\ pc = "field"
    /\ idx <= Len(schema)
    /\ LET f == schema[idx]
       IN  IF ~f.exported \/ f.tag = <<>>
           THEN UNCHANGED <<rec, raws, result>> /\ idx' = idx + 1 /\ pc' = "field"
           ELSE LET r == setFieldValue(environ, f.type, rec[idx], parseConfigTag(f.tag))
                IN  /\ raws' = [raws EXCEPT ![idx] =
                                  [seen |-> TRUE, raw |-> r.raw,
                                   transformed |-> r.transformed, coerced |-> r.coerced]]
                    /\ rec' = [rec EXCEPT ![idx] = r.val]
                    /\ CASE r.out = "ok" ->
                              idx' = idx + 1 /\ pc' = "field" /\ UNCHANGED result
                         [] r.out = "error" ->
                              /\ result' = Outcome("error", [r.err EXCEPT !.field = f.name])
                              /\ pc' = "idle"
                              /\ UNCHANGED idx
                         [] r.out = "panic" ->
                              /\ result' = Outcome("panic", NoError)
                              /\ pc' = "idle"
                              /\ UNCHANGED idx
    /\ UNCHANGED <<environ, dotenv, schema, cfg, env, old, environ0, loaded, calls, prev, aux>>
    /\ UNCHANGED loggerVars
\* setEnvField reading NODE_ENV anew, after the .env file was loaded
setEnvField_Reread ==
    /\ pc = "field"
    /\ idx > Len(schema)
    /\ LET named == {i \in 1..Len(schema) : schema[i].name = "Env" /\ schema[i].exported}
       IN  IF named = {}
           THEN result' = Outcome("nil", NoError) /\ UNCHANGED rec
           ELSE LET i == CHOOSE j \in named : TRUE
                IN  IF schema[i].type.kind = "String"
                    THEN result' = Outcome("nil", NoError) /\ rec' = [rec EXCEPT ![i] = getEnv(environ, ServiceEnvVarName, EnvLocal)]
                    ELSE IF schema[i].type.name = "Env"
                         THEN \* a value of type Env is not assignable to the field
                              result' = Outcome("panic", NoError) /\ UNCHANGED rec
                         ELSE result' = Outcome("nil", NoError) /\ UNCHANGED rec
    /\ pc' = "idle"
    /\ UNCHANGED <<environ, dotenv, schema, cfg, env, idx, old, environ0, loaded, raws, calls, prev, aux>>
    /\ UNCHANGED loggerVars

\* every field is bound: the field named Env, if there is one, takes the active
\* environment, and LoadConfig returns nil
setEnvField ==
    /\ pc = "field"
    /\ idx > Len(schema)
    /\ LET named == {i \in 1..Len(schema) : schema[i].name = "Env" /\ schema[i].exported}
       IN  IF named = {}
           THEN result' = Outcome("nil", NoError) /\ UNCHANGED rec
           ELSE LET i == CHOOSE j \in named : TRUE
                IN  IF schema[i].type.kind = "String"
                    THEN result' = Outcome("nil", NoError) /\ rec' = [rec EXCEPT ![i] = env]
                    ELSE IF schema[i].type.name = "Env"
                         THEN \* a value of type Env is not assignable to the field
                              result' = Outcome("panic", NoError) /\ UNCHANGED rec
                         ELSE result' = Outcome("nil", NoError) /\ UNCHANGED rec
    /\ pc' = "idle"
    /\ UNCHANGED <<environ, dotenv, schema, cfg, env, idx, old, environ0, loaded, raws, calls, prev, aux>>
    /\ UNCHANGED loggerVars

Next ==
    \/ \E c \in Targets : LoadConfig(c)
    \/ godotenvLoad
    \/ loadConfigIntoStruct
    \/ bindField
    \/ setEnvField

Spec == Init /\ [][Next]_vars

-----------------------------------------------------------------------------
(* the auxiliary lookups, called between two calls of LoadConfig *)

LookupNames == {<<"P", "O", "R", "T">>, <<"F", "L", "A", "G">>, <<"L", "I", "S", "T">>, <<"D", "E", "B", "U", "G">>, <<>>}

LookupSeps == {<<",">>, <<"|">>, <<>>}

GetEnvAsInt(name, defaultVal) ==
    /\ pc = "idle"
    /\ LET valueStr == getEnv(environ, name, <<>>)
           value    == Atoi(valueStr)
       IN  aux' = [fn |-> "GetEnvAsInt", name |-> name, def |-> defaultVal, sep |-> <<>>,
                   ret |-> IF value.ok THEN value.val ELSE defaultVal]
    /\ UNCHANGED <<environ, dotenv, schema, rec, cfg, pc, env, idx, result, old,
                   environ0, loaded, raws, calls, prev>>
    /\ UNCHANGED loggerVars

GetEnvAsBool(name, defaultVal) ==
    /\ pc = "idle"
    /\ LET valStr == getEnv(environ, name, <<>>)
           val    == ParseBool(valStr)
       IN  aux' = [fn |-> "GetEnvAsBool", name |-> name, def |-> defaultVal, sep |-> <<>>,
                   ret |-> IF val.ok THEN val.val ELSE defaultVal]
    /\ UNCHANGED <<environ, dotenv, schema, rec, cfg, pc, env, idx, result, old,
                   environ0, loaded, raws, calls, prev>>
    /\ UNCHANGED loggerVars

\* GetEnvAsSlice without its test of the empty value
GetEnvAsSlice_SplitEmpty(name, defaultVal, sep) ==
    /\ pc = "idle"
    /\ aux' = [fn |-> "GetEnvAsSlice", name |-> name, def |-> defaultVal, sep |-> sep,
               ret |-> Split(getEnv(environ, name, <<>>), sep)]
    /\ UNCHANGED <<environ, dotenv, schema, rec, cfg, pc, env, idx, result, old,
                   environ0, loaded, raws, calls, prev>>
    /\ UNCHANGED loggerVars

GetEnvAsSlice(name, defaultVal, sep) ==
    /\ pc = "idle"
    /\ LET valStr == getEnv(environ, name, <<>>)
       IN  aux' = [fn |-> "GetEnvAsSlice", name |-> name, def |-> defaultVal, sep |-> sep,
                   ret |-> IF valStr = <<>> THEN defaultVal ELSE Split(valStr, sep)]
    /\ UNCHANGED <<environ, dotenv, schema, rec, cfg, pc, env, idx, result, old,
                   environ0, loaded, raws, calls, prev>>
    /\ UNCHANGED loggerVars

LookupInts == {7}

LookupSlices == {<< <<"d", "f", "l", "t">> >>}

Lookup ==
    \/ \E name \in LookupNames, d \in LookupInts : GetEnvAsInt(name, d)
    \/ \E name \in LookupNames, d \in BOOLEAN : GetEnvAsBool(name, d)
    \/ \E name \in LookupNames, d \in LookupSlices, sep \in LookupSeps :
           GetEnvAsSlice(name, d, sep)

LookupSpec == Init /\ [][Lookup]_vars

-----------------------------------------------------------------------------
(* what the properties below speak of *)

Fields == 1..Len(schema)

\* the descriptor of field i
Config(i) == parseConfigTag(schema[i].tag)

\* field i is one the loop binds: writable and annotated
Annotated(i) == schema[i].exported /\ schema[i].tag # <<>>

\* the current or the last call has resolved field i
Resolved(i) == raws[i].seen

\* a call has returned (or panicked) and no other has begun
Returned == pc = "idle" /\ calls > 0

\* the call has returned the error `kind` for field i
FailedAt(i, kind) ==
    /\ result.out = "error"
    /\ result.err.kind = kind
    /\ result.err.field = schema[i].name

\* the source key of field i has no entry in the environment
Unset(i) == Config(i).EnvVar = <<>> \/ Config(i).EnvVar \notin DOMAIN environ

-----------------------------------------------------------------------------
(* C1 *)

RequiredAndNothing(i) ==
    /\ Annotated(i)
    /\ Config(i).Required
    /\ Unset(i)
    /\ Config(i).Default = <<>>

\* C1: a writable annotated field that is required, whose source key has no
\* entry in the environment and whose default is empty, makes LoadConfig return
\* MissingRequired for that field, naming its source key, and is not written,
\* whenever the loop reaches it (no earlier step of the call failed); so a
\* required field with neither source key nor default fails in every environment.
C1_MissingRequired ==
    \A i \in Fields :
        (Resolved(i) /\ RequiredAndNothing(i)) =>
            /\ Returned
            /\ FailedAt(i, "MissingRequired")
            /\ result.err.detail = Config(i).EnvVar
            /\ rec[i] = old[i]

\* a required field without source key and default was reached, it failed, and
\* the value it held (not the zero value) is still there
C1_Witness ==
    \E i \in Fields :
        /\ Resolved(i) /\ RequiredAndNothing(i)
        /\ Config(i).EnvVar = <<>>
        /\ FailedAt(i, "MissingRequired")
        /\ rec[i] = Preset(schema[i].type)

-----------------------------------------------------------------------------
(* C2 *)

\* C2 as stated: every call whose target is not a pointer to a struct returns
\* NotBindable and writes no field.
C2_Original ==
    (Returned /\ cfg # "ptr_struct") =>
        /\ result.out = "error" /\ result.err.kind = "NotBindable"
        /\ rec = old

\* C2, amended: a call whose target is not a pointer to a struct never writes a
\* field; it returns NotBindable unless the load of the .env file, which comes
\* first, has failed, and then it returns BootstrapLoadFailed.
C2_NotBindable ==
    (calls > 0 /\ cfg # "ptr_struct") =>
        /\ rec = old
        /\ \A i \in Fields : ~Resolved(i)
        /\ Returned =>
              /\ result.out = "error"
              /\ result.err.kind =
                    IF loaded = "failed" THEN "BootstrapLoadFailed" ELSE "NotBindable"

\* a nil struct pointer was refused after the .env file had been loaded
C2_Witness ==
    /\ Returned /\ cfg = "nil_ptr" /\ loaded = "ok"
    /\ result.err.kind = "NotBindable"
    /\ rec = old

-----------------------------------------------------------------------------
(* C3 *)

BootstrapFailed == Outcome("error", Error("BootstrapLoadFailed", "", <<>>))

\* C3: the active environment is the value NODE_ENV had when the call began,
\* "local" when it was unset, and it is known before any field is resolved.  When
\* it is "local" the .env file is loaded before the first field is resolved, and
\* a failed load ends the call with BootstrapLoadFailed and no field written;
\* when it is not "local" no load is attempted.
C3_Bootstrap ==
    /\ (calls > 0) =>
          env = IF ServiceEnvVarName \in DOMAIN environ0
                THEN environ0[ServiceEnvVarName] ELSE EnvLocal
    /\ (pc \in {"dotenv", "bind"}) => \A i \in Fields : ~Resolved(i)
    /\ \A i \in Fields :
          Resolved(i) => /\ calls > 0
                         /\ loaded = IF env = EnvLocal THEN "ok" ELSE "no"
    /\ (env # EnvLocal) => (loaded = "no" /\ pc # "dotenv" /\ environ = environ0)
    /\ (loaded = "failed") =>
          /\ Returned /\ result = BootstrapFailed
          /\ rec = old /\ environ = environ0
          /\ \A i \in Fields : ~Resolved(i)

\* NODE_ENV was unset, the .env file was loaded and a field then resolved to a
\* value that only the file defines
C3_Witness ==
    /\ ServiceEnvVarName \notin DOMAIN environ0
    /\ env = EnvLocal /\ loaded = "ok"
    /\ \E i \in Fields :
          /\ Resolved(i)
          /\ Config(i).EnvVar \in DOMAIN environ \ DOMAIN environ0
          /\ raws[i].raw = environ[Config(i).EnvVar]

-----------------------------------------------------------------------------
(* C4 *)

\* what binding field j does to the value the field held when the call began
FieldResult(j) == setFieldValue(environ, schema[j].type, old[j], Config(j))

\* field k is the first field whose binding fails
FirstFailing(k) ==
    /\ Annotated(k) /\ FieldResult(k).out = "error"
    /\ \A j \in 1..(k - 1) : Annotated(j) => FieldResult(j).out = "ok"

\* the call has returned and had got as far as the loop over the fields
Bound == Returned /\ cfg = "ptr_struct" /\ loaded # "failed"

\* the part of C4 that holds: the error of field k is returned, the fields before
\* k hold their newly bound values
FailFastUpTo(k) ==
    /\ result = Outcome("error", [FieldResult(k).err EXCEPT !.field = schema[k].name])
    /\ \A j \in 1..(k - 1) :
          rec[j] = IF Annotated(j) THEN FieldResult(j).val ELSE old[j]

\* C4 as stated: binding is fail-fast, and the fields after the first failing
\* field k, and the field named Env, keep the values they had before the call.
C4_Original ==
    \A k \in Fields :
        (Bound /\ FirstFailing(k)) =>
            /\ FailFastUpTo(k)
            /\ \A j \in (k + 1)..Len(schema) : rec[j] = old[j]
            /\ \A j \in Fields : schema[j].name = "Env" => rec[j] = old[j]

\* C4, amended: when the first failing field is field k, LoadConfig returns the
\* error of field k, every field declared before k holds its newly bound value
\* (the field named Env too, when it is annotated and declared before k), and
\* field k and every field declared after it keep the values they had before the
\* call: the active environment is not assigned to Env.
C4_FailFast ==
    \A k \in Fields :
        (Bound /\ FirstFailing(k)) =>
            /\ FailFastUpTo(k)
            /\ \A j \in k..Len(schema) : rec[j] = old[j]

\* a field in the middle failed: one before it has changed, one after it has not
C4_Witness ==
    \E k \in Fields :
        /\ Bound /\ FirstFailing(k)
        /\ result.out = "error" /\ result.err.field = schema[k].name
        /\ \E j \in 1..(k - 1) : rec[j] # old[j]
        /\ \E j \in (k + 1)..Len(schema) :
              /\ Annotated(j) /\ FieldResult(j).out = "ok" /\ FieldResult(j).val # old[j]
              /\ rec[j] = old[j]

-----------------------------------------------------------------------------
(* C5 *)

\* C5: the raw value a field resolves to is the value the environment holds
\* for its source key when there is an entry for it, be it the empty string, and
\* the default literal otherwise; with an empty source key it is the default.
C5_Resolution ==
    \A i \in Fields :
        Resolved(i) =>
            raws[i].raw = IF Config(i).EnvVar # <<>> /\ Config(i).EnvVar \in DOMAIN environ
                          THEN environ[Config(i).EnvVar]
                          ELSE Config(i).Default

\* a variable that is set to the empty string has kept a non-empty default out,
\* and the String field now holds the empty string
C5_Witness ==
    \E i \in Fields :
        /\ Resolved(i)
        /\ Config(i).EnvVar \in DOMAIN environ /\ environ[Config(i).EnvVar] = <<>>
        /\ Config(i).Default # <<>>
        /\ raws[i].raw = <<>>
        /\ schema[i].type.kind = "String" /\ rec[i] = <<>> /\ old[i] # <<>>

-----------------------------------------------------------------------------
(* C6 *)

\* field i is an integer or boolean field whose resolved value, transformed, is
\* the empty string
EmptyValued(i) ==
    /\ Annotated(i) /\ Resolved(i)
    /\ schema[i].type.kind \in IntKinds \cup {"Bool"}
    /\ applyTransform(raws[i].raw, Config(i).Transform) = <<>>

ErrorAt(i) == result.out = "error" /\ result.err.field = schema[i].name

\* C6 as stated: such a field causes no error and keeps its value.
C6_Original ==
    \A i \in Fields : EmptyValued(i) => (~ErrorAt(i) /\ rec[i] = old[i])

\* C6, amended: an integer or boolean field whose resolved and transformed value
\* is the empty string keeps exactly the value it had before the call; it causes
\* no error unless it is required, and then LoadConfig returns MissingRequired
\* for it.
C6_EmptyKept ==
    \A i \in Fields :
        EmptyValued(i) =>
            /\ rec[i] = old[i]
            /\ IF Config(i).Required THEN FailedAt(i, "MissingRequired") ELSE ~ErrorAt(i)

\* the call returned nil and an integer or boolean field that resolved to
\* nothing still holds its earlier, non-zero value
C6_Witness ==
    \E i \in Fields :
        /\ EmptyValued(i) /\ ~Config(i).Required
        /\ Returned /\ result.out = "nil"
        /\ rec[i] = old[i] /\ old[i] # Zero(schema[i].type)

-----------------------------------------------------------------------------
(* C7 *)

\* field i is a []string field that the current or last call has coerced
SliceBound(i) ==
    /\ Annotated(i) /\ schema[i].type = TStrings
    /\ Resolved(i) /\ raws[i].coerced

\* the separator of field i: the one its tag declares, or the comma
Sep(i) == IF Config(i).Separator = <<>> THEN <<",">> ELSE Config(i).Separator

Contains(s, x) == \E n \in 1..(Len(s) - Len(x) + 1) : SubSeq(s, n, n + Len(x) - 1) = x

\* the elements a source value is put together from
Pieces ==
    { <<"a">>, <<"b">>, <<"c">>, <<"h", ":", "1">>, <<"i", ":", "2">>, <<"j">>, <<"a", ",", "b">>, <<"b", "|", "c">>,
      <<"h", "o", "s", "t", "1", ":", "9", "0", "4", "2">>, <<"h", "o", "s", "t", "2", ":", "9", "0", "4", "2">>, <<"h", "o", "s", "t", "3", ":", "9", "0", "4", "2">> }

\* the triples <<a, b, c>> for which the source value of field i is a S b S c,
\* S being its separator and occurring in none of a, b, c
Threefold(i) ==
    LET S   == Sep(i)
        raw == raws[i].raw
        As  == {a \in Pieces : HasPrefix(raw, a \o S) /\ ~Contains(a, S)}
        Bs(a) == {b \in Pieces : HasPrefix(raw, a \o S \o b \o S) /\ ~Contains(b, S)}
        Cs(a, b) == {c \in Pieces : raw = a \o S \o b \o S \o c /\ ~Contains(c, S)}
    IN  UNION { UNION { {<<a, b, c>> : c \in Cs(a, b)} : b \in Bs(a) } : a \in As }

\* the characters url_escape leaves as they are
Unreserved ==
    { "a", "b", "c", "d", "e", "f", "g", "h", "i", "j", "k", "l", "m",
      "n", "o", "p", "q", "r", "s", "t", "u", "v", "w", "x", "y", "z",
      "A", "B", "C", "D", "E", "F", "G", "H", "I", "J", "K", "L", "M",
      "N", "O", "P", "Q", "R", "S", "T", "U", "V", "W", "X", "Y", "Z",
      "0", "1", "2", "3", "4", "5", "6", "7", "8", "9", "-", "_", ".", "~" }

\* C7 as stated: whatever the other directives of the field, the source value
\* a S b S c is bound to <<a, b, c>>.
C7_Original ==
    \A i \in Fields :
        SliceBound(i) => \A t \in Threefold(i) : rec[i] = t

\* the transform of field i rewrites nothing of the value a S b S c
TransformKeeps(i, t) ==
    /\ Config(i).Transform = TransformURLEscape =>
          \A n \in 1..Len(raws[i].raw) : raws[i].raw[n] \in Unreserved
    /\ Config(i).Transform = TransformHostsNoPorts =>
          \A n \in 1..3 : ~Contains(t[n], <<":">>)

\* C7, amended: a string-sequence field with separator S and the source value
\* a S b S c, S occurring in none of a, b, c, is bound to exactly <<a, b, c>>
\* provided its transform rewrites nothing: with url_escape the value must hold
\* only letters, digits and - _ . ~, and with hosts_no_ports none of a, b, c may
\* contain a colon.
C7_Split ==
    \A i \in Fields :
        SliceBound(i) => \A t \in Threefold(i) : TransformKeeps(i, t) => rec[i] = t

\* a field with a declared separator and a transform was bound to three elements
C7_Witness ==
    \E i \in Fields :
        /\ SliceBound(i)
        /\ Config(i).Separator # <<>> /\ Config(i).Transform = TransformURLEscape
        /\ \E t \in Threefold(i) : rec[i] = t /\ old[i] # rec[i]

-----------------------------------------------------------------------------
(* C8 *)

\* the part of s that precedes its first colon
BeforeColon(s) ==
    LET colons == {n \in 1..Len(s) : s[n] = ":"}
    IN  IF colons = {} THEN s
        ELSE SubSeq(s, 1, (CHOOSE n \in colons : \A m \in colons : n <= m) - 1)

\* C8: a string-sequence field with transform hosts_no_ports and a non-empty
\* value is bound, element by element and in order, to the parts that precede
\* the first colon of the elements the value splits into; so
\* "host1:9042,host2:9042,host3:9042" is bound to <<host1, host2, host3>>.
C8_HostsNoPorts ==
    \A i \in Fields :
        (SliceBound(i) /\ Config(i).Transform = TransformHostsNoPorts
                       /\ raws[i].raw # <<>>) =>
            LET parts == Split(raws[i].raw, Sep(i))
            IN  /\ Len(rec[i]) = Len(parts)
                /\ \A n \in 1..Len(parts) : rec[i][n] = BeforeColon(parts[n])
                /\ (raws[i].raw = <<"h", "o", "s", "t", "1", ":", "9", "0", "4", "2", ",", "h", "o", "s", "t", "2", ":", "9", "0", "4", "2", ",", "h", "o", "s", "t", "3", ":", "9", "0", "4", "2">> /\ Sep(i) = <<",">>)
                      => rec[i] = << <<"h", "o", "s", "t", "1">>, <<"h", "o", "s", "t", "2">>, <<"h", "o", "s", "t", "3">> >>

\* the three hosts of the test were bound without their ports
C8_Witness ==
    \E i \in Fields :
        /\ SliceBound(i) /\ Config(i).Transform = TransformHostsNoPorts
        /\ raws[i].raw = <<"h", "o", "s", "t", "1", ":", "9", "0", "4", "2", ",", "h", "o", "s", "t", "2", ":", "9", "0", "4", "2", ",", "h", "o", "s", "t", "3", ":", "9", "0", "4", "2">>
        /\ rec[i] = << <<"h", "o", "s", "t", "1">>, <<"h", "o", "s", "t", "2">>, <<"h", "o", "s", "t", "3">> >>

-----------------------------------------------------------------------------
(* C9 *)

\* the form-value encoding of one character, for the characters of the model
FormCode(c) ==
    CASE c = " " -> <<"+">>
      [] c \in Unreserved -> <<c>>
      [] c = "!" -> <<"%", "2", "1">>
      [] c = "&" -> <<"%", "2", "6">>
      [] c = "," -> <<"%", "2", "C">>
      [] c = ":" -> <<"%", "3", "A">>
      [] c = "@" -> <<"%", "4", "0">>
      [] c = "|" -> <<"%", "7", "C">>

RECURSIVE FormEncoding(_)
FormEncoding(s) == IF s = <<>> THEN <<>> ELSE FormCode(Head(s)) \o FormEncoding(Tail(s))

\* C9: url_escape maps a value to its form-value encoding (a space to "+",
\* letters and digits to themselves, a reserved character to its %XX code), and a
\* String field with that transform receives exactly the encoding of its raw
\* value; "p@ss w!th sp&cial" becomes "p%40ss+w%21th+sp%26cial".
C9_UrlEscape ==
    /\ QueryEscape(<<"p", "@", "s", "s", " ", "w", "!", "t", "h", " ", "s", "p", "&", "c", "i", "a", "l">>) = <<"p", "%", "4", "0", "s", "s", "+", "w", "%", "2", "1", "t", "h", "+", "s", "p", "%", "2", "6", "c", "i", "a", "l">>
    /\ \A i \in Fields :
          (Resolved(i) /\ raws[i].coerced /\ Config(i).Transform = TransformURLEscape) =>
              /\ raws[i].transformed = FormEncoding(raws[i].raw)
              /\ (schema[i].type.kind = "String" /\ schema[i].name # "Env") =>
                     rec[i] = FormEncoding(raws[i].raw)

\* the password of the test was bound in its escaped form
C9_Witness ==
    \E i \in Fields :
        /\ Resolved(i) /\ Config(i).Transform = TransformURLEscape
        /\ schema[i].type.kind = "String"
        /\ raws[i].raw = <<"p", "@", "s", "s", " ", "w", "!", "t", "h", " ", "s", "p", "&", "c", "i", "a", "l">>
        /\ rec[i] = <<"p", "%", "4", "0", "s", "s", "+", "w", "%", "2", "1", "t", "h", "+", "s", "p", "%", "2", "6", "c", "i", "a", "l">>

-----------------------------------------------------------------------------
(* C10 *)

\* the record and the environment of the end-to-end scenario
Scenario ==
    /\ schema = Cluster
    /\ cfg = "ptr_struct"
    /\ <<"H", "O", "S", "T", "S">> \in DOMAIN environ0 /\ environ0[<<"H", "O", "S", "T", "S">>] = <<"h", "1", ":", "1", ",", "h", "2", ":", "2">>
    /\ <<"P", "A", "S", "S">> \in DOMAIN environ0 /\ environ0[<<"P", "A", "S", "S">>] = <<"a", " ", "b">>

ScenarioBound == result.out = "nil" /\ rec = << << <<"h", "1">>, <<"h", "2">> >>, <<"a", "+", "b">> >>

\* C10 as stated: in every environment that holds the two variables the call
\* succeeds and leaves Hosts = <<h1, h2>> and Password = "a+b".
C10_Original == (Returned /\ Scenario) => ScenarioBound

\* C10, amended: the scenario binds to Hosts = <<h1, h2>> and Password = "a+b"
\* and returns nil provided the load of the .env file does not fail, that is,
\* NODE_ENV holds something other than "local" or the file loads.
C10_EndToEnd == (Returned /\ Scenario /\ loaded # "failed") => ScenarioBound

\* the scenario was bound over a record that held other values
C10_Witness ==
    /\ Returned /\ Scenario /\ ScenarioBound
    /\ old = << << <<"x">> >>, <<"o", "l", "d">> >>

-----------------------------------------------------------------------------
(* C11 *)

\* LoadConfig has returned for the second time running on the same target
Twice == Returned /\ calls >= 2 /\ cfg = prev.cfg

C11_EnvDiffers ==
    /\ Twice /\ schema = Server /\ result.out = "nil"
    /\ old[1] = EnvLocal /\ rec[1] = <<"s", "t", "a", "g", "i", "n", "g">>

-----------------------------------------------------------------------------
(* C12 *)

\* the loop reached field i, a slice whose elements are not of kind string, and
\* the field passed the required check
OtherSlice(i) ==
    /\ Annotated(i) /\ Resolved(i)
    /\ schema[i].type.kind = "Slice" /\ schema[i].type.elemKind # "String"
    /\ ~(Config(i).Required /\ raws[i].raw = <<>>)

C12_EmptyToo ==
    /\ Returned /\ schema = Fallback /\ OtherSlice(3) /\ raws[3].raw = <<>>
    /\ FailedAt(3, "UnsupportedSliceType") /\ rec[3] = <<1>>

-----------------------------------------------------------------------------
(* C13 *)

\* the loop reached the Boolean field i with a transformed value that is not empty
BoolValued(i) ==
    /\ Annotated(i) /\ Resolved(i)
    /\ schema[i].type.kind = "Bool"
    /\ raws[i].transformed # <<>>

\* field i was set to b
SetTo(i, b) == rec[i] = b /\ ~ErrorAt(i)

\* field i failed to parse and holds what it held
Unparsed(i) ==
    /\ FailedAt(i, "TypeCoercion") /\ result.err.detail = raws[i].transformed
    /\ rec[i] = old[i]

\* C13 as stated: true, false, 1, 0, t, f are taken in any mixture of upper and
\* lower case, every other value fails with TypeCoercion and leaves the field.
C13_Original ==
    \A i \in Fields :
        BoolValued(i) =>
            LET v == Lower(raws[i].transformed)
            IN  CASE v \in {<<"t", "r", "u", "e">>, <<"1">>, <<"t">>} -> SetTo(i, TRUE)
                  [] v \in {<<"f", "a", "l", "s", "e">>, <<"0">>, <<"f">>} -> SetTo(i, FALSE)
                  [] OTHER -> Unparsed(i)

TrueSpellings == {<<"1">>, <<"t">>, <<"T">>, <<"T", "R", "U", "E">>, <<"t", "r", "u", "e">>, <<"T", "r", "u", "e">>}

FalseSpellings == {<<"0">>, <<"f">>, <<"F">>, <<"F", "A", "L", "S", "E">>, <<"f", "a", "l", "s", "e">>, <<"F", "a", "l", "s", "e">>}

\* C13, amended: a Boolean field with a non-empty transformed value v is set to
\* true when v is one of 1, t, T, TRUE, true, True, and to false when v is one of
\* 0, f, F, FALSE, false, False; for every other v, other mixtures of case such
\* as tRUE included, LoadConfig fails with TypeCoercion and the field is unchanged.
C13_Spellings ==
    \A i \in Fields :
        BoolValued(i) =>
            LET v == raws[i].transformed
            IN  CASE v \in TrueSpellings -> SetTo(i, TRUE)
                  [] v \in FalseSpellings -> SetTo(i, FALSE)
                  [] OTHER -> Unparsed(i)

\* FLAG=tRUE is refused and the field keeps the false it held
C13_Witness ==
    /\ Returned /\ schema = Odd /\ BoolValued(1)
    /\ raws[1].transformed = <<"t", "R", "U", "E">>
    /\ Unparsed(1) /\ rec[1] = FALSE

\* FLAG=TRUE sets a field that held false
C13_Parsed ==
    /\ Returned /\ schema = Odd /\ BoolValued(1)
    /\ raws[1].transformed = <<"T", "R", "U", "E">>
    /\ old[1] = FALSE /\ rec[1] = TRUE

-----------------------------------------------------------------------------
(* C14 *)

\* the loop reached the Integer field i with a transformed value that is not empty
IntValued(i) ==
    /\ Annotated(i) /\ Resolved(i)
    /\ schema[i].type.kind \in IntKinds
    /\ raws[i].transformed # <<>>

\* C14: an Integer field of any signed width with a non-empty transformed value
\* v holds exactly the integer v denotes when v is a base-10 signed integer
\* literal; otherwise LoadConfig fails with TypeCoercion carrying the field name
\* and v, and the field is unchanged.
C14_Integer ==
    \A i \in Fields :
        IntValued(i) =>
            LET v == ParseInt(raws[i].transformed)
            IN  IF v.ok THEN rec[i] = v.val /\ ~ErrorAt(i) ELSE Unparsed(i)

\* an int8 field bound from PORT=-300 holds -44 and the call went on
C14_Truncated ==
    /\ Returned /\ schema = Small /\ IntValued(1)
    /\ raws[1].transformed = <<"-", "3", "0", "0">>
    /\ rec[1] = -44 /\ ~ErrorAt(1)

-----------------------------------------------------------------------------
(* C15 *)

\* the loop reached field i, whose kind is none of String, signed Integer,
\* Boolean or slice, and the field passed the required check
OtherKind(i) ==
    /\ Annotated(i) /\ Resolved(i)
    /\ schema[i].type.kind \notin IntKinds \cup {"String", "Bool", "Slice"}
    /\ ~(Config(i).Required /\ raws[i].raw = <<>>)

\* C15: a writable annotated field whose kind is none of String, signed Integer,
\* Boolean or slice, once it passes the required check, makes LoadConfig fail
\* with UnsupportedFieldType for that field, also when its resolved value is
\* empty, and the field is unchanged.
C15_UnsupportedKind ==
    \A i \in Fields :
        OtherKind(i) => (FailedAt(i, "UnsupportedFieldType") /\ rec[i] = old[i])

\* a float field whose variable is unset fails and keeps what it held
C15_Witness ==
    /\ Returned /\ schema = Odd /\ OtherKind(2)
    /\ raws[2].raw = <<>>
    /\ FailedAt(2, "UnsupportedFieldType") /\ rec[2] = 7

\* a required unsigned field whose variable is set fails in the same way
C15_RequiredToo ==
    /\ Returned /\ schema = Gauge /\ OtherKind(1)
    /\ raws[1].raw = <<"8", "0">>
    /\ FailedAt(1, "UnsupportedFieldType") /\ rec[1] = 7

-----------------------------------------------------------------------------
(* C16 *)

\* C16 as stated: a field without annotation, or one that cannot be written,
\* is left at its value by every call and never causes an error.
C16_Original ==
    \A i \in Fields : ~Annotated(i) => (rec[i] = old[i] /\ ~ErrorAt(i))

\* C16, amended: a field without annotation, or one that cannot be written, is
\* left at its value by every call and never causes an error, whatever its
\* annotation and the environment, unless it is the exported field named Env,
\* which a successful call sets to the active environment.
C16_Skipped ==
    \A i \in Fields :
        ~Annotated(i) =>
            IF schema[i].name = "Env" /\ schema[i].exported
            THEN /\ ~ErrorAt(i)
                 /\ rec[i] = IF result.out = "nil" /\ schema[i].type.kind = "String"
                             THEN env ELSE old[i]
            ELSE rec[i] = old[i] /\ ~ErrorAt(i)

\* the call bound Label and returned nil although the unexported field is
\* tagged required and NAME is unset; that field and the untagged one hold what
\* they held
C16_Witness ==
    /\ Returned /\ schema = Profile /\ result.out = "nil"
    /\ <<"N", "A", "M", "E">> \notin DOMAIN environ
    /\ rec[1] = <<"o", "l", "d">> /\ rec[2] = <<"o", "l", "d">>
    /\ old[4] = <<"o", "l", "d">> /\ rec[4] = <<"n", "o", "n", "e">>

-----------------------------------------------------------------------------
(* C17 *)

\* field i is the field the step after the loop assigns
EnvField(i) ==
    /\ schema[i].name = "Env" /\ schema[i].exported
    /\ schema[i].type.kind = "String"

\* the active environment of the call: NODE_ENV as it was when the call began,
\* "local" when it had no entry
ActiveEnv ==
    IF ServiceEnvVarName \in DOMAIN environ0 THEN environ0[ServiceEnvVarName] ELSE <<"l", "o", "c", "a", "l">>

\* C17: after a call in which all fields succeed, a writable field named Env of
\* kind string (type string or type Env) equals the active environment name,
\* whatever the loop bound to it; after a call that returns an error the step
\* has not run: the field holds what the loop bound to it, or its prior value.
C17_EnvField ==
    Returned =>
        \A i \in Fields :
            EnvField(i) =>
                CASE result.out = "nil" -> rec[i] = ActiveEnv
                  [] result.out = "error" ->
                        rec[i] = IF Annotated(i) /\ Resolved(i) /\ ~ErrorAt(i)
                                 THEN raws[i].transformed ELSE old[i]
                  [] OTHER -> TRUE

\* NODE_ENV was unset, the .env file gave it the value staging, the loop bound
\* the field of type Env to NAME=bob, and the field holds "local"
C17_Witness ==
    /\ Returned /\ schema = Server /\ result.out = "nil"
    /\ EnvField(1) /\ schema[1].type = TEnv
    /\ ServiceEnvVarName \notin DOMAIN environ0
    /\ environ[ServiceEnvVarName] = <<"s", "t", "a", "g", "i", "n", "g">>
    /\ raws[1].transformed = <<"b", "o", "b">>
    /\ rec[1] = <<"l", "o", "c", "a", "l">>

\* the call failed on a later field: the Env field holds what the loop bound
C17_NotOnError ==
    /\ Returned /\ schema = Server /\ result.out = "error"
    /\ raws[1].seen /\ raws[1].transformed = <<"b", "o", "b">> /\ rec[1] = <<"b", "o", "b">>
    /\ old[1] = <<"o", "l", "d">>

-----------------------------------------------------------------------------
(* C18 *)

\* the variable the last lookup asked for has an entry in the environment
LookedUpSet == aux.name # <<>> /\ aux.name \in DOMAIN environ

\* the integers that the numerals among the values of the environments denote
Numerals == {<<<<"8", "0">>, 80>>, <<<<"-", "3", "0", "0">>, 0 - 300>>, <<<<"2">>, 2>>, <<<<"0">>, 0>>}

IsNumeral(v) == \E n \in Numerals : n[1] = v

NumeralValue(v) == (CHOOSE n \in Numerals : n[1] = v)[2]

RECURSIVE Join(_, _)
Join(elems, sep) ==
    IF Len(elems) = 1 THEN elems[1]
    ELSE elems[1] \o sep \o Join(Tail(elems), sep)

\* elems are the pieces of v between the occurrences of sep; with the empty
\* sep, the characters of v
SplitOf(elems, v, sep) ==
    /\ Len(elems) >= 1
    /\ Join(elems, sep) = v
    /\ \A n \in 1..Len(elems) :
          IF sep = <<>> THEN Len(elems[n]) = 1 ELSE ~Contains(elems[n], sep)

\* C18: GetEnvAsInt returns the integer the variable denotes when it is set to
\* a base-10 integer and the fallback otherwise; GetEnvAsBool returns the parsed
\* boolean when the variable is set to a boolean spelling and the fallback
\* otherwise; GetEnvAsSlice returns the fallback when the variable is unset or
\* empty and otherwise its value split on sep; the environment stays as it was.
C18_Lookups ==
    /\ environ = environ0
    /\ CASE aux.fn = "GetEnvAsInt" ->
              aux.ret = IF LookedUpSet /\ IsNumeral(environ[aux.name])
                        THEN NumeralValue(environ[aux.name]) ELSE aux.def
         [] aux.fn = "GetEnvAsBool" ->
              aux.ret = IF LookedUpSet /\ environ[aux.name] \in TrueSpellings THEN TRUE
                        ELSE IF LookedUpSet /\ environ[aux.name] \in FalseSpellings THEN FALSE
                        ELSE aux.def
         [] aux.fn = "GetEnvAsSlice" ->
              IF LookedUpSet /\ environ[aux.name] # <<>>
              THEN SplitOf(aux.ret, environ[aux.name], aux.sep)
              ELSE aux.ret = aux.def
         [] OTHER -> TRUE

\* GetEnvAsSlice("LIST", d, "|") with LIST=h:1|i:2|j returned the three pieces
C18_Witness ==
    /\ aux.fn = "GetEnvAsSlice" /\ aux.name = <<"L", "I", "S", "T">> /\ aux.sep = <<"|">>
    /\ LookedUpSet /\ environ[aux.name] = <<"h", ":", "1", "|", "i", ":", "2", "|", "j">>
    /\ aux.ret = <<<<"h", ":", "1">>, <<"i", ":", "2">>, <<"j">>>>

\* GetEnvAsInt("PORT", 7) returned -300 for PORT=-300 and 7 for PORT=x1
C18_IntParsed ==
    /\ aux.fn = "GetEnvAsInt" /\ aux.name = <<"P", "O", "R", "T">> /\ LookedUpSet
    /\ environ[aux.name] = <<"-", "3", "0", "0">> /\ aux.ret = 0 - 300

C18_IntFallback ==
    /\ aux.fn = "GetEnvAsInt" /\ aux.name = <<"P", "O", "R", "T">> /\ LookedUpSet
    /\ environ[aux.name] = <<"x", "1">> /\ aux.ret = 7

\* GetEnvAsBool("FLAG", TRUE) returned false for FLAG=f
C18_BoolParsed ==
    /\ aux.fn = "GetEnvAsBool" /\ aux.name = <<"F", "L", "A", "G">> /\ LookedUpSet
    /\ environ[aux.name] = <<"f">> /\ aux.def = TRUE /\ aux.ret = FALSE

\* GetEnvAsSlice of a variable that is not set returned the fallback
C18_SliceFallback ==
    /\ aux.fn = "GetEnvAsSlice" /\ ~LookedUpSet /\ aux.ret = <<<<"d", "f", "l", "t">>>>

-----------------------------------------------------------------------------
(* C19 *)

\* the raw value of field i: the entry of its source key, else its default
RawOf(i) == IF Unset(i) THEN Config(i).Default ELSE environ[Config(i).EnvVar]

\* the transform of field i applied to s
Transformed(i, s) ==
    IF Config(i).Transform = <<"u", "r", "l", "_", "e", "s", "c", "a", "p", "e">> THEN FormEncoding(s) ELSE s

\* the loop has bound the String field i
StringBound(i) ==
    /\ Annotated(i) /\ Resolved(i)
    /\ schema[i].type.kind = "String"
    /\ ~(Config(i).Required /\ RawOf(i) = <<>>)

\* C19 as stated: after a successful call every String field equals the
\* transform of its resolved raw value.
C19_Original ==
    result.out = "nil" =>
        \A i \in Fields : StringBound(i) => rec[i] = Transformed(i, RawOf(i))

\* C19, amended: once its bind has succeeded a String field equals exactly the
\* transform applied to the resolved raw value, the empty string when nothing
\* resolves, whatever it held before; except that a field named Env holds the
\* active environment instead once the call has returned nil.
C19_String ==
    \A i \in Fields :
        StringBound(i) =>
            rec[i] = IF EnvField(i) /\ result.out = "nil" THEN env
                     ELSE Transformed(i, RawOf(i))

\* PASS is unset and Password has no default: the field held "old" and is now
\* empty
C19_Witness ==
    /\ Returned /\ schema = Cluster /\ result.out = "nil"
    /\ StringBound(2) /\ Unset(2)
    /\ old[2] = <<"o", "l", "d">> /\ rec[2] = <<>>

\* the annotated Env field of Server was bound to NAME=bob and then overwritten
C19_EnvOverwritten ==
    /\ Returned /\ schema = Server /\ result.out = "nil"
    /\ StringBound(1) /\ RawOf(1) = <<"b", "o", "b">> /\ rec[1] = <<"t", "e", "s", "t">>

-----------------------------------------------------------------------------
(* C20 *)

\* the loop reached the string-sequence field i with an empty transformed value
EmptySlice(i) ==
    /\ Annotated(i) /\ Resolved(i)
    /\ schema[i].type = TStrings
    /\ Transformed(i, RawOf(i)) = <<>>

\* field i holds the default literal split on the separator, nothing else done
\* to it, or the empty sequence when there is no default
DefaultSplit(i) ==
    IF Config(i).Default # <<>>
    THEN SplitOf(rec[i], Config(i).Default, Sep(i))
    ELSE rec[i] = <<>>

\* C20 as stated: every such field becomes the default literal split on the
\* separator, untransformed, or the empty sequence when the default is empty.
C20_Original ==
    \A i \in Fields : EmptySlice(i) => DefaultSplit(i)

\* C20, amended: a string-sequence field whose transformed value is empty
\* becomes the default literal split on the separator with no transform applied
\* (the ports of the default are kept under hosts_no_ports), or the empty
\* sequence when the default is empty too, discarding its prior contents; unless
\* the field is required, and then LoadConfig fails with MissingRequired and the
\* field keeps its contents.
C20_DefaultSplit ==
    \A i \in Fields :
        EmptySlice(i) =>
            IF Config(i).Required
            THEN FailedAt(i, "MissingRequired") /\ rec[i] = old[i]
            ELSE DefaultSplit(i) /\ ~ErrorAt(i)

\* REGION is set to the empty string: Peers takes its default with the ports,
\* Tags becomes empty, and both held <<"x">>
C20_Witness ==
    /\ Returned /\ schema = Fallback
    /\ EmptySlice(1) /\ EmptySlice(2)
    /\ <<"R", "E", "G", "I", "O", "N">> \in DOMAIN environ
    /\ old[1] = <<<<"x">>>> /\ rec[1] = <<<<"h", ":", "1">>, <<"i", ":", "2">>>>
    /\ old[2] = <<<<"x">>>> /\ rec[2] = <<>>

\* the required slice of Lists with LIST unset fails and keeps its contents
C20_RequiredFails ==
    /\ Returned /\ schema = Lists /\ EmptySlice(3)
    /\ FailedAt(3, "MissingRequired") /\ rec[3] = <<<<"x">>>>

-----------------------------------------------------------------------------
(* C21 *)

\* the loop resolved field i, whose transform is not url_escape
PlainTransform(i) ==
    /\ Annotated(i) /\ Resolved(i)
    /\ Config(i).Transform # <<"u", "r", "l", "_", "e", "s", "c", "a", "p", "e">>

-----------------------------------------------------------------------------
(* parseConfigTag on its own: the tags are lists of directives joined by commas *)

\* the directives the tags of this specification are made of
Directives ==
    { <<"e", "n", "v", ":", "A">>, <<"e", "n", "v", ":", "B">>, <<"d", "e", "f", "a", "u", "l", "t", ":", "x">>, <<" ", "d", "e", "f", "a", "u", "l", "t", ":", "y", " ">>, <<"s", "e", "p", ":", ";">>, <<"s", "e", "p", ":", "'", ",", "'">>, <<"s", "e", "p", ":", "'", "|", "'">>,
      <<"t", "r", "a", "n", "s", "f", "o", "r", "m", ":", "u", "r", "l", "_", "e", "s", "c", "a", "p", "e">>, <<"d", "e", "s", "c", ":", "t", "e", "x", "t">>, <<"r", "e", "q", "u", "i", "r", "e", "d">>, <<"z", "z">> }

MaxDirectives == 3

DirectiveLists == UNION {[1..n -> Directives] : n \in 1..MaxDirectives}

\* the tag that lists the directives ds
TagOf(ds) == Join(ds, <<",">>)

\* parseConfigTag(tag) is called, once in a run of this specification, and
\* returns a descriptor and a nil error
parseTag(ds) ==
    /\ pc = "idle" /\ aux.fn = "none"
    /\ aux' = [fn |-> "parseConfigTag", name |-> TagOf(ds), def |-> ds, sep |-> <<>>,
               ret |-> [config |-> parseConfigTag(TagOf(ds)), err |-> "nil"]]
    /\ UNCHANGED <<environ, dotenv, schema, rec, cfg, pc, env, idx, result, old,
                   environ0, loaded, raws, calls, prev>>
    /\ UNCHANGED loggerVars

\* no record is being bound: one empty environment, no .env file
ParseInit ==
    /\ Init
    /\ schema = Gauge /\ DOMAIN environ = {} /\ dotenv.state = "missing"
    /\ rec = <<0>>

Parse == \E ds \in DirectiveLists : parseTag(ds)

ParseSpec == ParseInit /\ [][Parse]_vars

-----------------------------------------------------------------------------
(* C22 *)

\* parseConfigTag has returned
Parsed == aux.fn = "parseConfigTag"

\* directives that match none of env:, default:, sep:, transform:, desc:, required
Unrecognized == { <<"z", "z">>, <<"R", "e", "q", "u", "i", "r", "e", "d">>, <<"e", "n", "v">>, <<>>, <<"d", "e", "s", "c", "r", "i", "p", "t", "i", "o", "n">>, <<"k", "e", "y", "=", "v", "a", "l">>, <<"'">> }

\* the list ds with the directive u inserted after its first p directives
Insert(ds, p, u) == SubSeq(ds, 1, p) \o <<u>> \o SubSeq(ds, p + 1, Len(ds))

\* C22: parseConfigTag returns a descriptor and no error for every tag, and a
\* directive that matches none of the six kinds, added anywhere in the list,
\* leaves every field of the descriptor as it is.
C22_Total ==
    Parsed =>
        /\ aux.ret.err = "nil"
        /\ DOMAIN aux.ret.config = DOMAIN ConfigField
        /\ \A u \in Unrecognized, p \in 0..Len(aux.def) :
              parseConfigTag(TagOf(Insert(aux.def, p, u))) = aux.ret.config

\* the tag env:A,zz,required gives the descriptor of env:A,required
C22_Witness ==
    /\ Parsed /\ aux.name = <<"e", "n", "v", ":", "A", ",", "z", "z", ",", "r", "e", "q", "u", "i", "r", "e", "d">>
    /\ aux.ret.config = [ConfigField EXCEPT !.EnvVar = <<"A">>, !.Required = TRUE]

-----------------------------------------------------------------------------
(* C23 *)

\* the kind of the directive d
KindOf(d) ==
    LET t == TrimSpace(d)
    IN  CASE HasPrefix(t, <<"e", "n", "v", ":">>) -> "env"
          [] HasPrefix(t, <<"d", "e", "f", "a", "u", "l", "t", ":">>) -> "default"
          [] HasPrefix(t, <<"s", "e", "p", ":">>) -> "sep"
          [] HasPrefix(t, <<"t", "r", "a", "n", "s", "f", "o", "r", "m", ":">>) -> "transform"
          [] HasPrefix(t, <<"d", "e", "s", "c", ":">>) -> "desc"
          [] t = <<"r", "e", "q", "u", "i", "r", "e", "d">> -> "required"
          [] OTHER -> "other"

\* the permutations of 1..n
Orders(n) == {f \in [1..n -> 1..n] : \A i, j \in 1..n : i # j => f[i] # f[j]}

\* the permutation f leaves the directives of one kind in the order ds has them
KeepsKinds(ds, f) ==
    \A i, j \in 1..Len(ds) :
        (i < j /\ KindOf(ds[f[i]]) = KindOf(ds[f[j]])) => f[i] < f[j]

\* the descriptor field that directives of kind k set
FieldOf(config, k) ==
    CASE k = "env" -> config.EnvVar
      [] k = "default" -> config.Default
      [] k = "sep" -> config.Separator
      [] k = "transform" -> config.Transform
      [] k = "desc" -> config.Description

\* the place of the last directive of kind k in ds, 0 when there is none
LastOf(ds, k) ==
    LET at == {i \in 1..Len(ds) : KindOf(ds[i]) = k}
    IN  IF at = {} THEN 0 ELSE CHOOSE i \in at : \A j \in at : j <= i

\* C23: the descriptor of a tag is that of every tag that lists the same
\* directives in another order with those of one kind in their old order, and
\* for each kind the descriptor holds the value of the last directive of the
\* kind (what that directive alone would set), or nothing when there is none.
C23_Order ==
    Parsed =>
        LET ds == aux.def
        IN  /\ \A f \in Orders(Len(ds)) :
                  KeepsKinds(ds, f) =>
                      parseConfigTag(TagOf([i \in 1..Len(ds) |-> ds[f[i]]])) = aux.ret.config
            /\ \A k \in {"env", "default", "sep", "transform", "desc"} :
                  FieldOf(aux.ret.config, k) =
                      IF LastOf(ds, k) = 0 THEN <<>>
                      ELSE FieldOf(parseConfigTag(ds[LastOf(ds, k)]), k)
            /\ aux.ret.config.Required = (LastOf(ds, "required") # 0)

\* env:A,required,env:B names B, as does required,env:A,env:B
C23_Witness ==
    /\ Parsed /\ aux.def = <<<<"e", "n", "v", ":", "A">>, <<"r", "e", "q", "u", "i", "r", "e", "d">>, <<"e", "n", "v", ":", "B">>>>
    /\ aux.ret.config = [ConfigField EXCEPT !.EnvVar = <<"B">>, !.Required = TRUE]
    /\ parseConfigTag(<<"r", "e", "q", "u", "i", "r", "e", "d", ",", "e", "n", "v", ":", "A", ",", "e", "n", "v", ":", "B">>) = aux.ret.config

-----------------------------------------------------------------------------
(* C24 *)

\* the text of a sep: directive after the prefix, without the single quotes
\* that surround it
Unquoted(d) ==
    LET v == TrimPrefix(TrimSpace(d), <<"s", "e", "p", ":">>)
    IN  IF Len(v) >= 2 /\ v[1] = "'" /\ v[Len(v)] = "'" THEN SubSeq(v, 2, Len(v) - 1) ELSE v

\* C24: the descriptor of a tag whose last sep: directive is sep:'X' or sep:X
\* has the separator X, the comma included, and a descriptor of a tag without a
\* sep: directive has none and splits on the comma.
C24_Separator ==
    Parsed =>
        LET ds == aux.def
            n  == LastOf(ds, "sep")
        IN  IF n # 0 THEN aux.ret.config.Separator = Unquoted(ds[n])
            ELSE /\ aux.ret.config.Separator = <<>>
                 /\ sliceValue(aux.ret.config, <<"a", ",", "b">>) = <<<<"a">>, <<"b">>>>

\* the descriptor of sep:',' has the empty separator
C24_CommaLost ==
    /\ Parsed /\ aux.def = <<<<"s", "e", "p", ":", "'", ",", "'">>>>
    /\ aux.ret.config.Separator = <<>>

\* the descriptor of sep:'|' has the separator |
C24_QuotesStripped ==
    /\ Parsed /\ aux.def = <<<<"s", "e", "p", ":", "'", "|", "'">>>>
    /\ aux.ret.config.Separator = <<"|">>

-----------------------------------------------------------------------------
(* C25 *)

NotDesc(d) == KindOf(d) # "desc"

\* the parts that are no desc: directives, in their order
RECURSIVE WithoutDesc(_)
WithoutDesc(parts) ==
    IF parts = <<>> THEN <<>>
    ELSE (IF NotDesc(Head(parts)) THEN <<Head(parts)>> ELSE <<>>) \o WithoutDesc(Tail(parts))

\* tags that differ from tag only in desc: directives: without them, with
\* another text in them, and with one more
DescVariants(tag) ==
    LET parts == Split(tag, <<",">>)
        rest  == WithoutDesc(parts)
    IN  { TagOf(rest \o <<<<"d", "e", "s", "c", ":", "r", "e", "q", "u", "i", "r", "e", "d">>>>),
          TagOf(<<<<"d", "e", "s", "c", ":", "e", "n", "v", ":", "P", "O", "R", "T", " ", "d", "e", "f", "a", "u", "l", "t", ":", "9", " ", "s", "e", "p", ":", "|">>>> \o rest),
          TagOf([n \in 1..Len(parts) |-> IF NotDesc(parts[n]) THEN parts[n] ELSE <<"d", "e", "s", "c", ":">>]) }
        \cup (IF rest = <<>> THEN {} ELSE {TagOf(rest)})

\* C25: a field whose tag differs only in its desc: directives (their text, or
\* their presence) would, in the same environment and from the same prior
\* value, have been bound to the value the field holds and with the same error
\* or none.
C25_DescInert ==
    \A i \in Fields :
        (Annotated(i) /\ Resolved(i)) =>
            \A tag \in DescVariants(schema[i].tag) :
                LET twin == setFieldValue(environ, schema[i].type, old[i], parseConfigTag(tag))
                IN  /\ (twin.out = "error") = ErrorAt(i)
                    /\ ErrorAt(i) => result.err = [twin.err EXCEPT !.field = schema[i].name]
                    /\ (EnvField(i) /\ result.out = "nil") \/ twin.val = rec[i]

\* Retries, tagged default:3,desc:attempts, holds 3 as it would without the desc:
C25_Witness ==
    /\ Returned /\ schema = Defaults /\ Resolved(2)
    /\ Config(2).Description = <<"a", "t", "t", "e", "m", "p", "t", "s">>
    /\ old[2] = 7 /\ rec[2] = 3
    /\ <<"d", "e", "f", "a", "u", "l", "t", ":", "3">> \in DescVariants(schema[2].tag)

-----------------------------------------------------------------------------
(* C29 *)

\* C29: LoadConfig returns nil or an error and never panics, whatever the
\* target, the record and the environment.
C29_NeverPanics == result.out # "panic"

\* the slice of a named string type: field.Set panics on the []string
C29_SlicePanics ==
    /\ Returned /\ schema = Aliases /\ result.out = "panic"
    /\ idx = 2 /\ rec[2] = old[2]

\* the field named Env of a type Env that is an integer: Set panics on the Env
\* value after every field was bound
C29_EnvPanics ==
    /\ Returned /\ schema = Stage /\ result.out = "panic"
    /\ Resolved(2) /\ rec[1] = old[1]

\* a nil target and a nil pointer to a struct come back with an error
C29_NilReturns ==
    /\ Returned /\ cfg \in {"nil", "nil_ptr"} /\ loaded # "failed"
    /\ result.out = "error" /\ result.err.kind = "NotBindable"

-----------------------------------------------------------------------------
(* package tblogger *)

\* Logger objects made in one behaviour
MaxLoggers == 2

LevelDebug == 0 - 4

LevelInfo == 0

LevelWarn == 4

LevelError == 8

\* the levels a Config is given: three of the package and one above ERROR
Levels == {LevelDebug, LevelInfo, LevelWarn, LevelError + 4}

\* the levels of Debug, Info, Warn and Error
CallLevels == {LevelDebug, LevelInfo, LevelWarn, LevelError}

Messages == {<<"m">>, <<"f", "a", "t", "a", "l">>}

Loggers == 1..Len(loggers)

\* l.config.Level
ConfigLevel(l) == configs[loggers[l].config].Level

\* the handler of l passes level m: its HandlerOptions hold the level that the
\* Config had when New built the handler
Enabled(l, m) == m >= loggers[l].level

Record(l, m, msg) == [kind |-> "record", logger |-> l, level |-> m, msg |-> msg, code |-> 0]

Exit(code) == [kind |-> "exit", logger |-> 0, level |-> 0, msg |-> <<>>, code |-> code]

Panicked(msg) == [kind |-> "panic", logger |-> 0, level |-> 0, msg |-> msg, code |-> 0]

\* l.slogger.Log at level m: the handler gets the record if it is enabled
Emit(l, m, msg) == IF Enabled(l, m) THEN <<Record(l, m, msg)>> ELSE <<>>

Called(fn, l, arg, msg, ret) ==
    [fn |-> fn, logger |-> l, arg |-> arg, msg |-> msg, ret |-> ret, err |-> "nil"]

\* a nil *Config
NilConfig == 0 - 1

\* a Config the caller has just made
FreshConfig == 0

\* New(config): config is nil, a Config the caller has just made with level
\* and path, or the Config c that an earlier call of New was given
New(c, level, path) ==
    /\ Len(loggers) < MaxLoggers
    /\ \/ c = NilConfig /\ level = LevelInfo /\ path = "none"
       \/ c = FreshConfig
       \/ c \in 1..Len(configs) /\ level = configs[c].Level /\ path = "none"
    /\ IF path = "bad"
       THEN \* setupFileOutput fails: no Logger
            /\ reply' = [Called("New", 0, level, <<>>, 0) EXCEPT !.err = "error"]
            /\ UNCHANGED <<configs, loggers>>
       ELSE LET cid == IF c \in {NilConfig, FreshConfig} THEN Len(configs) + 1 ELSE c
                l   == Len(loggers) + 1
            IN  /\ configs' = IF c \in {NilConfig, FreshConfig}
                              THEN Append(configs, [Level |-> level]) ELSE configs
                /\ loggers' = Append(loggers, [config |-> cid, level |-> level,
                                               origin |-> l])
                /\ reply' = Called("New", 0, level, <<>>, l)
    /\ events' = <<>>
    /\ UNCHANGED configVars

\* Debug, Info, Warn, Error and their Context variants
Log(l, m, msg) ==
    /\ events' = Emit(l, m, msg)
    /\ reply' = Called("Log", l, m, msg, 0)
    /\ UNCHANGED <<configs, loggers>>
    /\ UNCHANGED configVars

\* With without the shared Config: the new Logger gets a copy
With_CopyConfig(l, how) ==
    /\ Len(loggers) < MaxLoggers
    /\ configs' = Append(configs, configs[loggers[l].config])
    /\ loggers' = Append(loggers, [loggers[l] EXCEPT !.config = Len(configs) + 1])
    /\ reply' = Called(how, l, 1, <<>>, Len(loggers) + 1)
    /\ events' = <<>>
    /\ UNCHANGED configVars

\* With and WithGroup, and WithFields, WithRequest, WithUser, WithDuration and
\* WithError of an error, which call With: a new Logger over a slog.Logger with
\* more attributes and the same handler options, holding the same *Config
With(l, how) ==
    /\ Len(loggers) < MaxLoggers
    /\ loggers' = Append(loggers, loggers[l])
    /\ reply' = Called(how, l, 1, <<>>, Len(loggers) + 1)
    /\ events' = <<>>
    /\ UNCHANGED configs
    /\ UNCHANGED configVars

\* WithError(nil)
WithErrorNil(l) ==
    /\ reply' = Called("WithError", l, 0, <<>>, l)
    /\ events' = <<>>
    /\ UNCHANGED <<configs, loggers>>
    /\ UNCHANGED configVars

LogLevel(l) ==
    /\ reply' = Called("LogLevel", l, 0, <<>>, ConfigLevel(l))
    /\ events' = <<>>
    /\ UNCHANGED <<configs, loggers>>
    /\ UNCHANGED configVars

\* SetLevel raising the level only
SetLevel_RaiseOnly(l, level) ==
    /\ configs' = [configs EXCEPT ![loggers[l].config].Level =
                      IF level > ConfigLevel(l) THEN level ELSE ConfigLevel(l)]
    /\ reply' = Called("SetLevel", l, level, <<>>, 0)
    /\ events' = <<>>
    /\ UNCHANGED loggers
    /\ UNCHANGED configVars

SetLevel(l, level) ==
    /\ configs' = [configs EXCEPT ![loggers[l].config].Level = level]
    /\ reply' = Called("SetLevel", l, level, <<>>, 0)
    /\ events' = <<>>
    /\ UNCHANGED loggers
    /\ UNCHANGED configVars

IsDebugEnabled(l) ==
    /\ reply' = Called("IsDebugEnabled", l, 0, <<>>, ConfigLevel(l) <= LevelDebug)
    /\ events' = <<>>
    /\ UNCHANGED <<configs, loggers>>
    /\ UNCHANGED configVars

IsInfoEnabled(l) ==
    /\ reply' = Called("IsInfoEnabled", l, 0, <<>>, ConfigLevel(l) <= LevelInfo)
    /\ events' = <<>>
    /\ UNCHANGED <<configs, loggers>>
    /\ UNCHANGED configVars

\* Fatal calling the exit hook before it logs
Fatal_ExitFirst(l, msg) ==
    /\ events' = <<Exit(1)>> \o Emit(l, LevelError, msg)
    /\ reply' = Called("Fatal", l, LevelError, msg, 0)
    /\ UNCHANGED <<configs, loggers>>
    /\ UNCHANGED configVars

\* Fatal: the record at ERROR, then osExit(1); the hook of this model returns
Fatal(l, msg) ==
    /\ events' = Emit(l, LevelError, msg) \o <<Exit(1)>>
    /\ reply' = Called("Fatal", l, LevelError, msg, 0)
    /\ UNCHANGED <<configs, loggers>>
    /\ UNCHANGED configVars

\* Panic: the record at ERROR, then panic(msg); the caller recovers
Panic(l, msg) ==
    /\ events' = Emit(l, LevelError, msg) \o <<Panicked(msg)>>
    /\ reply' = Called("Panic", l, LevelError, msg, 0)
    /\ UNCHANGED <<configs, loggers>>
    /\ UNCHANGED configVars

Derivations == {"With", "WithGroup", "WithError", "WithFields", "WithRequest", "WithUser", "WithDuration"}

LoggerInit == ParseInit

LoggerNext ==
    \/ \E c \in NilConfig..Len(configs), level \in Levels, path \in {"none", "bad"} :
          New(c, level, path)
    \/ \E l \in Loggers, m \in CallLevels : Log(l, m, <<"m">>)
    \/ \E l \in Loggers, how \in Derivations : With(l, how)
    \/ \E l \in Loggers : WithErrorNil(l)
    \/ \E l \in Loggers : LogLevel(l)
    \/ \E l \in Loggers, level \in Levels : SetLevel(l, level)
    \/ \E l \in Loggers : IsDebugEnabled(l)
    \/ \E l \in Loggers : IsInfoEnabled(l)
    \/ \E l \in Loggers, msg \in Messages : Fatal(l, msg)
    \/ \E l \in Loggers, msg \in Messages : Panic(l, msg)

LoggerSpec == LoggerInit /\ [][LoggerNext]_vars

-----------------------------------------------------------------------------
(* C26 *)

Queries == {"LogLevel", "IsDebugEnabled", "IsInfoEnabled"}

\* call r of LogLevel, IsDebugEnabled or IsInfoEnabled reports level
Reports(r, level) ==
    CASE r.fn = "LogLevel"       -> r.ret = level
      [] r.fn = "IsDebugEnabled" -> r.ret = (level <= LevelDebug)
      [] r.fn = "IsInfoEnabled"  -> r.ret = (level <= LevelInfo)

\* C26: a logger that New made with level L reports L: LogLevel returns L,
\* IsDebugEnabled is true exactly when L <= DEBUG and IsInfoEnabled exactly
\* when L <= INFO; SetLevel(L) makes L the level of its logger, no other call
\* changes the level of a logger, and so the three report the level of the
\* last SetLevel.
C26_Levels ==
    [][/\ (reply'.fn = "New" /\ reply'.err = "nil") => ConfigLevel(reply.ret)' = reply'.arg
       /\ reply'.fn = "SetLevel" => ConfigLevel(reply.logger)' = reply'.arg
       /\ reply'.fn # "SetLevel" => \A l \in Loggers : ConfigLevel(l)' = ConfigLevel(l)
       /\ reply'.fn \in Queries => Reports(reply', ConfigLevel(reply.logger)')]_vars

\* made at INFO, set to DEBUG, and IsDebugEnabled says so
C26_Witness ==
    /\ reply.fn = "IsDebugEnabled"
    /\ reply.ret = TRUE
    /\ loggers[reply.logger].level = LevelInfo
    /\ \A l \in Loggers : loggers[l].config = loggers[reply.logger].config => l = reply.logger

\* made above ERROR and never set: neither check is true
C26_Neither ==
    /\ reply.fn = "IsInfoEnabled"
    /\ reply.ret = FALSE
    /\ ConfigLevel(reply.logger) = loggers[reply.logger].level
    /\ Len(loggers) = 1

-----------------------------------------------------------------------------
(* C27 *)

\* C27: a log call at level M writes a record exactly when M is at or above
\* the level that LogLevel reports for its logger, the level of the last
\* SetLevel.
C27_SetLevel ==
    reply.fn = "Log" =>
        ((events # <<>>) <=> reply.arg >= ConfigLevel(reply.logger))

\* what the code does: the record is written exactly when M is at or above
\* the level the Config had when New built the handler
C27_HandlerLevel ==
    reply.fn = "Log" =>
        events = IF reply.arg >= loggers[reply.logger].level
                 THEN <<Record(reply.logger, reply.arg, reply.msg)>> ELSE <<>>

\* made at INFO, set to DEBUG, reports DEBUG, and Debug writes nothing
C27_Lost ==
    /\ reply.fn = "Log"
    /\ reply.arg = LevelDebug
    /\ loggers[reply.logger].level = LevelInfo
    /\ ConfigLevel(reply.logger) = LevelDebug
    /\ events = <<>>

\* made at DEBUG, set above ERROR, and Debug is written all the same
C27_Leaked ==
    /\ reply.fn = "Log"
    /\ reply.arg = LevelDebug
    /\ ConfigLevel(reply.logger) > LevelError
    /\ events # <<>>

\* without SetLevel the records agree with the reported level
C27_Unset ==
    (reply.fn = "Log" /\ ConfigLevel(reply.logger) = loggers[reply.logger].level) =>
        ((events # <<>>) <=> reply.arg >= ConfigLevel(reply.logger))

-----------------------------------------------------------------------------
(* C28 *)

\* C28: Fatal(msg) on a logger whose handler passes ERROR writes one record,
\* at ERROR and with msg, and then calls the exit hook once, with code 1;
\* Panic(msg) on such a logger writes the same one record and then panics
\* with msg. Nothing else is written or done by either call.
C28_FatalPanic ==
    /\ (reply.fn = "Fatal" /\ Enabled(reply.logger, LevelError)) =>
           events = <<Record(reply.logger, LevelError, reply.msg), Exit(1)>>
    /\ (reply.fn = "Panic" /\ Enabled(reply.logger, LevelError)) =>
           events = <<Record(reply.logger, LevelError, reply.msg), Panicked(reply.msg)>>

C28_Witness ==
    /\ reply.fn = "Fatal"
    /\ reply.msg = <<"f", "a", "t", "a", "l">>
    /\ Len(events) = 2
    /\ events[1].kind = "record"
    /\ events[2].kind = "exit"

C28_Panics ==
    /\ reply.fn = "Panic"
    /\ Len(events) = 2
    /\ events[1].level = LevelError
    /\ events[2].kind = "panic"

\* a handler made above ERROR: Fatal still exits and Panic still panics, and
\* no record is written
C28_Silent ==
    /\ reply.fn \in {"Fatal", "Panic"}
    /\ ~Enabled(reply.logger, LevelError)
    /\ Len(events) = 1
    /\ events[1].kind \in {"exit", "panic"}

-----------------------------------------------------------------------------
(* C30 *)

\* l and k are one logger made by New and the loggers derived from it
Family(l, k) == loggers[l].origin = loggers[k].origin

\* C30: a logger and the loggers derived from it hold one configuration; after
\* SetLevel(L) on any of them each of them reports L; WithError(nil) returns
\* its receiver.
C30_Shared ==
    /\ \A l, k \in Loggers : Family(l, k) => loggers[l].config = loggers[k].config
    /\ reply.fn = "SetLevel" =>
           \A k \in Loggers : Family(reply.logger, k) => ConfigLevel(k) = reply.arg
    /\ (reply.fn = "WithError" /\ reply.arg = 0) => reply.ret = reply.logger

\* SetLevel on a derived logger, to a level its parent was not made with
C30_Witness ==
    /\ reply.fn = "SetLevel"
    /\ loggers[reply.logger].origin # reply.logger
    /\ reply.arg # loggers[loggers[reply.logger].origin].level
    /\ ConfigLevel(loggers[reply.logger].origin) = reply.arg

\* WithError(nil) makes no logger
C30_Receiver ==
    /\ reply.fn = "WithError"
    /\ reply.arg = 0
    /\ reply.ret = reply.logger
    /\ Len(loggers) = 1

\* WithError of an error makes one
C30_Derived ==
    /\ reply.fn = "WithError"
    /\ reply.arg = 1
    /\ reply.ret # reply.logger
    /\ Family(reply.ret, reply.logger)

\* two loggers made by New from two Configs keep their own levels
C30_Apart ==
    /\ reply.fn = "SetLevel"
    /\ \E k \in Loggers : ~Family(reply.logger, k) /\ ConfigLevel(k) # reply.arg

====
